---------------------------- MODULE Spec2Model ----------------------------
(***************************************************************************)
(* A model of the tornado TCP status server: the SourceMessage /           *)
(* ServerMessage wire codec (base/message.py), the Source state            *)
(* (base/source.py), the per-connection read loop (base/server.py) and the *)
(* ApplicationServer handlers and listener broadcast (app/app_server.py).  *)
(*                                                                         *)
(* Bytes are naturals 0..255, byte strings are sequences of bytes, and     *)
(* Python text (str) is a sequence of code points, so that formatting,     *)
(* encoding and decoding are computed rather than assumed.                 *)
(***************************************************************************)
EXTENDS Integers, Sequences, FiniteSets, TLC

(***************************************************************************)
(* Bounds of the model.                                                    *)
(***************************************************************************)
\* number of connections that may be accepted on the ingestion endpoint
NumSources == 2
\* number of connections that may be accepted on the broadcast endpoint
NumListeners == 2
\* total number of frames the source peers send, over all connections
MaxSent == 2
\* number of listener connections in the ingestion specification
IngestListeners == 1

(***************************************************************************)
(* Program constants.                                                      *)
(***************************************************************************)
SOURCE_PORT == 8888
LISTENER_PORT == 8889
STATUS_IDLE == 1
STATUS_ACTIVE == 2
STATUS_RECHARGE == 3
SourceMessage_DEFAULT_HEADER == 1
HEADER_SUCCESS == 17
HEADER_ERROR == 18
SOURCE_NAME_LENGTH == 8
chunk_size == 12

\* SourceMessage.STATUS / Source.STATUS: the accepted statuses and their names
STATUS == {STATUS_IDLE, STATUS_ACTIVE, STATUS_RECHARGE}
STATUS_name(s) ==
    CASE s = STATUS_IDLE -> <<73, 68, 76, 69>>                      \* 'IDLE'
      [] s = STATUS_ACTIVE -> <<65, 67, 84, 73, 86, 69>>            \* 'ACTIVE'
      [] s = STATUS_RECHARGE -> <<82, 69, 67, 72, 65, 82, 71, 69>>  \* 'RECHARGE'
SourceMessage_HEADERS == {SourceMessage_DEFAULT_HEADER}
ServerMessage_HEADERS == {HEADER_SUCCESS, HEADER_ERROR}
\* ApplicationServer.ALLOWED_MESSAGES = (SourceMessage, )
ALLOWED_MESSAGES == <<"SourceMessage">>
\* the message classes of the server tests: HEADERS = (0xee, 0xff) and (0x01, 0x03)
MockMessage1_HEADERS == {238, 255}
MockMessage2_HEADERS == {1, 3}
HEADERS(message_class) ==
    CASE message_class = "SourceMessage" -> SourceMessage_HEADERS
      [] message_class = "MockMessage1" -> MockMessage1_HEADERS
      [] message_class = "MockMessage2" -> MockMessage2_HEADERS
      [] OTHER -> ServerMessage_HEADERS

(***************************************************************************)
(* Bytes, integers and text.                                               *)
(***************************************************************************)
RECURSIVE Xor(_, _)
\* Python's x ^ y on non-negative integers
Xor(x, y) ==
    IF x = 0 THEN y
    ELSE IF y = 0 THEN x
    ELSE ((x + y) % 2) + 2 * Xor(x \div 2, y \div 2)

RECURSIVE xor_checksum(_)
\* reduce(lambda x, y: x ^ y, bytes_data): a left fold with no initial value
xor_checksum(bytes_data) ==
    IF Len(bytes_data) = 1 THEN bytes_data[1]
    ELSE Xor(xor_checksum(SubSeq(bytes_data, 1, Len(bytes_data) - 1)),
             bytes_data[Len(bytes_data)])

RECURSIVE to_bytes_overflows(_, _)
\* whether int.to_bytes(width, 'big') raises OverflowError: the value is
\* negative or needs more than width bytes
to_bytes_overflows(value, width) ==
    IF value < 0 THEN TRUE
    ELSE IF width = 0 THEN value > 0
    ELSE to_bytes_overflows(value \div 256, width - 1)

\* the bytes of the value with the lowest byte first
to_bytes_little(value, width) ==
    [i \in 1..width |-> (value \div (256 ^ (i - 1))) % 256]

RECURSIVE to_bytes(_, _)
\* int.to_bytes(width, 'big') of a value that fits
to_bytes(value, width) ==
    IF width = 0 THEN <<>>
    ELSE Append(to_bytes(value \div 256, width - 1), value % 256)

RECURSIVE from_bytes(_)
\* int.from_bytes(bytes, 'big')
from_bytes(bytes_data) ==
    IF Len(bytes_data) = 0 THEN 0
    ELSE 256 * from_bytes(SubSeq(bytes_data, 1, Len(bytes_data) - 1))
         + bytes_data[Len(bytes_data)]

\* Python slicing b[lo:hi] with 0 <= lo, on a sequence (0-based, hi exclusive)
Slice(s, lo, hi) ==
    SubSeq(s, lo + 1, IF hi > Len(s) THEN Len(s) ELSE hi)

\* bytes(n): n zero bytes
ZeroBytes(n) == [i \in 1..n |-> 0]

\* trim_bytes(bytes_data, num): the first num bytes, zero bytes added in front
trim_bytes(bytes_data, num) ==
    LET data == Slice(bytes_data, 0, num)
    IN IF Len(data) < num THEN ZeroBytes(num - Len(data)) \o data ELSE data

RECURSIVE utf8_valid(_)
\* whether bytes.decode() succeeds (UTF-8, strict), for code points below
\* U+0800: one-byte and two-byte forms; every other lead byte is refused
utf8_valid(b) ==
    IF Len(b) = 0 THEN TRUE
    ELSE IF b[1] < 128 THEN utf8_valid(Tail(b))
    ELSE IF b[1] >= 194 /\ b[1] <= 223 /\ Len(b) >= 2
            /\ b[2] >= 128 /\ b[2] <= 191
         THEN utf8_valid(Tail(Tail(b)))
    ELSE FALSE

RECURSIVE utf8_decode(_)
\* bytes.decode(): the code points of a valid UTF-8 byte string
utf8_decode(b) ==
    IF Len(b) = 0 THEN <<>>
    ELSE IF b[1] < 128 THEN <<b[1]>> \o utf8_decode(Tail(b))
    ELSE <<(b[1] - 192) * 64 + (b[2] - 128)>> \o utf8_decode(Tail(Tail(b)))

RECURSIVE utf8_encode(_)
\* str.encode(): UTF-8 bytes of a text of code points below U+0800
utf8_encode(text) ==
    IF Len(text) = 0 THEN <<>>
    ELSE IF text[1] < 128 THEN <<text[1]>> \o utf8_encode(Tail(text))
    ELSE <<192 + (text[1] \div 64), 128 + (text[1] % 64)>> \o utf8_encode(Tail(text))

\* str.replace('\0', ''): the text without its NUL characters
strip_nul(text) == SelectSeq(text, LAMBDA ch : ch # 0)

RECURSIVE str_int(_)
\* str(n) / '{}'.format(n) of a non-negative integer: its decimal digits
str_int(n) ==
    IF n < 10 THEN <<48 + n>> ELSE Append(str_int(n \div 10), 48 + (n % 10))

RECURSIVE join(_, _)
\* sep.join(parts)
join(sep, parts) ==
    IF Len(parts) = 0 THEN <<>>
    ELSE IF Len(parts) = 1 THEN parts[1]
    ELSE parts[1] \o sep \o join(sep, Tail(parts))

RECURSIVE text_less(_, _)
\* Python's str < str: lexicographic on code points
text_less(a, b) ==
    IF Len(b) = 0 THEN FALSE
    ELSE IF Len(a) = 0 THEN TRUE
    ELSE IF a[1] # b[1] THEN a[1] < b[1]
    ELSE text_less(Tail(a), Tail(b))


(***************************************************************************)
(* Results of operations that may raise: error is "None" or the name of    *)
(* the exception raised.                                                   *)
(***************************************************************************)
Ok(v) == [error |-> "None", value |-> v]
Raise(e) == [error |-> e, value |-> <<>>]

(***************************************************************************)
(* Python dicts of field data: insertion-ordered items <<key, value>>; a   *)
(* message's data is None or such a dict.                                  *)
(***************************************************************************)
NoneData == [none |-> TRUE, items |-> <<>>]
Dict(items) == [none |-> FALSE, items |-> items]
\* `if self.data:` -- neither None nor empty
Truthy(data) == ~data.none /\ Len(data.items) > 0

\* result[key] = value: a new key goes last, an existing key keeps its place
dict_set(items, key, value) ==
    IF \E i \in 1..Len(items) : items[i][1] = key
    THEN [i \in 1..Len(items) |->
             IF items[i][1] = key THEN <<key, value>> ELSE items[i]]
    ELSE Append(items, <<key, value>>)

RECURSIVE sorted_insert(_, _)
sorted_insert(item, s) ==
    IF Len(s) = 0 THEN <<item>>
    ELSE IF text_less(item[1], s[1][1]) THEN <<item>> \o s
    ELSE <<s[1]>> \o sorted_insert(item, Tail(s))

\* the items in the order they were inserted
items_as_inserted(items) == items

RECURSIVE sorted_items(_)
\* the items in the order of sorted(self.data.keys())
sorted_items(items) ==
    IF Len(items) = 0 THEN <<>>
    ELSE sorted_insert(items[Len(items)],
                       sorted_items(SubSeq(items, 1, Len(items) - 1)))

(***************************************************************************)
(* SourceMessage                                                           *)
(***************************************************************************)
\* SourceMessage.__init__(num, source_id, status, header, data);
\* header 0 stands for a missing header too (`if not header`)
SourceMessage(num, source_id, status, header, data) ==
    LET h == IF header = 0 THEN SourceMessage_DEFAULT_HEADER ELSE header
    IN IF h \notin SourceMessage_HEADERS THEN Raise("InvalidMessageException")
       ELSE IF status \notin STATUS THEN Raise("InvalidMessageException")
       ELSE Ok([header |-> h, num |-> num, source_id |-> source_id,
                status |-> status, data |-> data])

RECURSIVE encode_items(_)
\* the loop of SourceMessage._encode_data over the sorted keys
encode_items(items) ==
    IF Len(items) = 0 THEN Ok(<<>>)
    ELSE IF to_bytes_overflows(items[1][2], 4) THEN Raise("EncodeMessageError")
    ELSE LET rest == encode_items(Tail(items))
         IN IF rest.error # "None" THEN rest
            ELSE Ok(trim_bytes(utf8_encode(items[1][1]), 8)
                    \o to_bytes(items[1][2], 4) \o rest.value)

\* SourceMessage._encode_data
SourceMessage_encode_data(message) == encode_items(sorted_items(message.data.items))

\* SourceMessage.get_raw
SourceMessage_get_raw(message) ==
    IF to_bytes_overflows(message.num, 2) THEN Raise("EncodeMessageError")
    ELSE IF to_bytes_overflows(message.status, 1) THEN Raise("EncodeMessageError")
    ELSE LET head == <<message.header>> \o to_bytes(message.num, 2)
                     \o trim_bytes(utf8_encode(message.source_id), 8)
                     \o to_bytes(message.status, 1)
             items == message.data.items
         IN IF Truthy(message.data)
            \* _encode_data raises when the value of some key does not fit
            THEN IF \E i \in 1..Len(items) : to_bytes_overflows(items[i][2], 4)
                 THEN Raise("EncodeMessageError")
                 \* bytes(message_data) refuses a list element above 255
                 ELSE IF Len(items) > 255 THEN Raise("ValueError")
                 ELSE LET data == SourceMessage_encode_data(message)
                      IN IF data.error # "None" THEN data
                         ELSE Ok(head \o <<Len(items)>> \o data.value)
            ELSE Ok(head \o <<0>>)

\* AbstractMessage.encode for a SourceMessage: the raw body and its check sum
SourceMessage_encode(message) ==
    LET raw_body == SourceMessage_get_raw(message)
    IN IF raw_body.error # "None" THEN raw_body
       ELSE Ok(Append(raw_body.value, xor_checksum(raw_body.value)))

\* AbstractMessage.check_sum() with no argument: the check sum of get_raw()
SourceMessage_check_sum(message) == xor_checksum(SourceMessage_get_raw(message).value)

RECURSIVE decode_chunks(_, _)
\* the loop of SourceMessage._decode_data over the 12-byte chunks
decode_chunks(bytes_data, result) ==
    IF Len(bytes_data) = 0 THEN Ok(result)
    ELSE LET field == Slice(bytes_data, 0, 8)
             value == Slice(bytes_data, 8, chunk_size)
         IN IF ~utf8_valid(field) THEN Raise("UnicodeDecodeError")
            ELSE decode_chunks(Slice(bytes_data, chunk_size, Len(bytes_data)),
                               dict_set(result, strip_nul(utf8_decode(field)),
                                        from_bytes(value)))

\* SourceMessage._decode_data
SourceMessage_decode_data(bytes_data, num_fields) ==
    IF Len(bytes_data) # num_fields * chunk_size THEN Raise("DecodeMessageError")
    ELSE decode_chunks(bytes_data, <<>>)

\* SourceMessage.decode
SourceMessage_decode(bytes_data) ==
    IF Len(bytes_data) = 0 THEN Raise("IndexError")
    ELSE
    LET header == bytes_data[1]
        check_sum == bytes_data[Len(bytes_data)]
        data_body == Slice(bytes_data, 1, Len(bytes_data) - 1)
        num == from_bytes(Slice(data_body, 0, 2))
        id_bytes == Slice(data_body, 2, 10)
    IN IF ~utf8_valid(id_bytes) THEN Raise("UnicodeDecodeError")
       ELSE IF Len(data_body) < 12 THEN Raise("IndexError")
       ELSE
       LET source_id == strip_nul(utf8_decode(id_bytes))
           status == data_body[11]
           num_fields == data_body[12]
           data == IF num_fields > 0
                   THEN SourceMessage_decode_data(Slice(data_body, 12, Len(data_body)),
                                                  num_fields)
                   ELSE Ok(<<>>)
       IN IF data.error = "DecodeMessageError" THEN Raise("InvalidMessageException")
          ELSE IF data.error # "None" THEN data
          ELSE
          LET message == SourceMessage(num, source_id, status, header,
                                       IF num_fields > 0 THEN Dict(data.value)
                                       ELSE NoneData)
          IN IF message.error # "None" THEN message
             ELSE IF SourceMessage_check_sum(message.value) # check_sum
                  THEN Raise("InvalidMessageException")
             ELSE message

RECURSIVE str_items(_)
\* ['{} | {}'.format(k, v) for k, v in self.data.items()]
str_items(items) ==
    IF Len(items) = 0 THEN <<>>
    ELSE <<items[1][1] \o <<32, 124, 32>> \o str_int(items[1][2])>>
         \o str_items(Tail(items))

\* SourceMessage.__str__: '[<source_id>] ' + '\r\n'.join(fields) + '\n'
SourceMessage_str(message) ==
    <<91>> \o message.source_id \o <<93, 32>>
    \o (IF Truthy(message.data) THEN join(<<13, 10>>, str_items(message.data.items))
        ELSE <<>>)
    \o <<10>>

(***************************************************************************)
(* ServerMessage                                                           *)
(***************************************************************************)
\* a constructor that takes any number with the header ERROR
ServerMessage_any_number(num, header) ==
    LET h == IF header = 0 THEN HEADER_SUCCESS ELSE header
    IN IF h \notin ServerMessage_HEADERS THEN Raise("InvalidMessageException")
       ELSE Ok([header |-> h, num |-> num])

\* ServerMessage.__init__(num, header)
ServerMessage(num, header) ==
    LET h == IF header = 0 THEN HEADER_SUCCESS ELSE header
    IN IF h \notin ServerMessage_HEADERS THEN Raise("InvalidMessageException")
       ELSE IF h = HEADER_ERROR /\ num # 0 THEN Raise("InvalidMessageException")
       ELSE Ok([header |-> h, num |-> num])

\* ServerMessage.get_raw
ServerMessage_get_raw(message) ==
    IF to_bytes_overflows(message.num, 2) THEN Raise("EncodeMessageError")
    ELSE Ok(<<message.header>> \o to_bytes(message.num, 2))

\* AbstractMessage.encode for a ServerMessage
ServerMessage_encode(message) ==
    LET raw_body == ServerMessage_get_raw(message)
    IN IF raw_body.error # "None" THEN raw_body
       ELSE Ok(Append(raw_body.value, xor_checksum(raw_body.value)))

\* ServerMessage.decode; the message of its check-sum error is built with a
\* format string of two fields and one argument, which raises IndexError
ServerMessage_decode(bytes_data) ==
    IF Len(bytes_data) = 0 THEN Raise("IndexError")
    ELSE
    LET header == bytes_data[1]
        check_sum == bytes_data[Len(bytes_data)]
        data_body == Slice(bytes_data, 1, Len(bytes_data) - 1)
        num == from_bytes(Slice(data_body, 0, 2))
        message == ServerMessage(num, header)
    IN IF message.error # "None" THEN message
       ELSE IF xor_checksum(ServerMessage_get_raw(message.value).value) # check_sum
            THEN Raise("IndexError")
       ELSE message

(***************************************************************************)
(* Source                                                                  *)
(***************************************************************************)
\* Source.__init__ / BaseSource.__init__ with the status setter
Source(source_id, status) ==
    LET st == IF status = 0 THEN STATUS_IDLE ELSE status
    IN IF Len(source_id) > SOURCE_NAME_LENGTH THEN Raise("SourceException")
       ELSE IF st \notin STATUS THEN Raise("SourceException")
       ELSE Ok([source_id |-> source_id, status |-> st, messages |-> <<>>])

\* a setter that assigns the value before it checks it
set_status_assigns_first(source, value) ==
    IF value \notin STATUS
    THEN [error |-> "SourceException", value |-> [source EXCEPT !.status = value]]
    ELSE Ok([source EXCEPT !.status = value])

\* BaseSource.status setter: the value is checked against STATUS and then
\* assigned; value is the Source as the call leaves it
set_status(source, value) ==
    IF value \notin STATUS THEN [error |-> "SourceException", value |-> source]
    ELSE Ok([source EXCEPT !.status = value])

\* get_message that appends and leaves the status as it was
get_message_keeps_status(source, message) ==
    IF message.status \notin STATUS THEN Raise("SourceException")
    ELSE Ok([source EXCEPT !.messages = Append(@, message)])

\* get_message that sets the status and forgets the append
get_message_mutant(source, message) ==
    IF message.status \notin STATUS THEN Raise("SourceException")
    ELSE Ok([source EXCEPT !.status = message.status])

\* BaseSource.get_message: set the status (checked by the setter), then
\* append; when the setter raises nothing is appended
get_message(source, message) ==
    LET set == set_status(source, message.status)
    IN IF set.error # "None" THEN set
       ELSE Ok([set.value EXCEPT !.messages = Append(@, message)])

\* Source.__str__ of a source that has a last message:
\* '[<id>] <num> | <status> | <milliseconds>'
Source_str(source, milliseconds) ==
    <<91>> \o source.source_id \o <<93, 32>>
    \o str_int(source.messages[Len(source.messages)].num) \o <<32, 124, 32>>
    \o STATUS_name(source.status) \o <<32, 124, 32>>
    \o str_int(milliseconds)

(***************************************************************************)
(* Connections, peers and the frames the source peers send.                *)
(***************************************************************************)
\* connections 1..NumSources arrive on the ingestion endpoint, the others on
\* the broadcast endpoint; a connection's number stands for its address
SourceConns == 1..NumSources
ListenerConns == (NumSources + 1)..(NumSources + NumListeners)
Conns == SourceConns \cup ListenerConns
IngestListenerConns == (NumSources + 1)..(NumSources + IngestListeners)
\* stream.socket.getsockname()[1]
port(c) == IF c \in SourceConns THEN SOURCE_PORT ELSE LISTENER_PORT

\* the valid messages the source peers build: ids 'a' and 'b'
PeerMessages ==
    { SourceMessage(1, <<97>>, STATUS_IDLE, 0, NoneData).value,
      SourceMessage(2, <<98>>, STATUS_ACTIVE, 0, Dict(<<<<<<107>>, 5>>>>)).value }

\* a frame with its check sum recomputed over the bytes as they are
WithCheckSum(raw) == Append(raw, xor_checksum(raw))
\* a frame with one byte replaced (0-based position, as in Python)
Patch(frame, at, byte) == [frame EXCEPT ![at + 1] = byte]

\* what the peers put on the wire: well-formed frames, a frame whose check
\* sum byte is wrong, a frame of undefined status 0 and a frame whose
\* identifier bytes are no UTF-8 text (both with a matching check sum)
GoodFrames == { SourceMessage_encode(m).value : m \in PeerMessages }
PeerFrames ==
    LET good == GoodFrames
        first == SourceMessage_encode(
                    SourceMessage(1, <<97>>, STATUS_IDLE, 0, NoneData).value).value
        raw == SubSeq(first, 1, Len(first) - 1)
    IN good
       \cup { Patch(first, Len(first) - 1, Xor(first[Len(first)], 1)) }
       \cup { WithCheckSum(Patch(raw, 11, 0)) }
       \cup { WithCheckSum(Patch(raw, 10, 255)) }

\* time.now() - date_received, in milliseconds, as the snapshot may see it
ElapsedMs == {0, 25}

(***************************************************************************)
(* State                                                                   *)
(***************************************************************************)
VARIABLES
    sources,      \* ApplicationServer.sources: the Sources, in insertion order
    listeners,    \* ApplicationServer.listeners: the keys, in insertion order
    pc,           \* where each connection's task stands
    exc,          \* the exception that ended a connection's task, or "None"
    inbuf,        \* bytes that have arrived on a stream and are not yet read
    wire,         \* the rest of a frame its peer has sent the start of
    byte_data,    \* decode_stream's byte_data of the frame being read
    message,      \* handler_SourceMessage's decoded message
    out,          \* what has been written to each stream, one entry per write
    closed,       \* stream.closed()
    iter,         \* broadcast_message's loop over self.listeners.items()
    running,      \* the task that is between two suspension points, or 0
    processed,    \* history: the frames decode_stream has read, in order
    created,      \* history: the identifiers Source objects were built for
    sent,         \* number of frames the peers have sent
    dispatch,     \* a BaseServer subclass of some configuration and the read
                  \* loop of one connection to it
    codec         \* the codec on its own: one call of decode_stream on a
                  \* stream, or one message constructed, encoded and decoded

vars == <<sources, listeners, pc, exc, inbuf, wire, byte_data, message, out, closed,
          iter, running, processed, created, sent, dispatch, codec>>

NoMessage == [header |-> 0, num |-> 0, source_id |-> <<>>, status |-> 0,
              data |-> NoneData]
NoIter == [state |-> "none", pos |-> 0, used |-> 0, start |-> <<>>,
           open |-> {}, delivered |-> <<>>, failed |-> <<>>, returned |-> 0]

ReadStages == {"header", "num", "source_id", "status", "numfields", "data",
               "check_sum"}
\* stages in which a frame is partly read
MidFrame == ReadStages \ {"header"}

\* no server but the ApplicationServer, no decode_stream call of its own
NoDispatch == [pc |-> "none"]
NoCodec == [stage |-> "none"]

\* the ApplicationServer, with no connection yet
AppInit ==
    /\ sources = <<>>
    /\ listeners = <<>>
    /\ pc = [c \in Conns |-> "new"]
    /\ exc = [c \in Conns |-> "None"]
    /\ inbuf = [c \in Conns |-> <<>>]
    /\ wire = [c \in Conns |-> <<>>]
    /\ byte_data = [c \in Conns |-> <<>>]
    /\ message = [c \in Conns |-> NoMessage]
    /\ out = [c \in Conns |-> <<>>]
    /\ closed = [c \in Conns |-> FALSE]
    /\ iter = [c \in Conns |-> NoIter]
    /\ running = 0
    /\ processed = <<>>
    /\ created = <<>>
    /\ sent = 0

Init ==
    /\ AppInit
    /\ dispatch = NoDispatch
    /\ codec = NoCodec

(***************************************************************************)
(* The peers                                                               *)
(***************************************************************************)
\* the place a frame may be cut at when its peer sends it in two pieces:
\* inside the identifier
SplitAt == {5}

\* a source peer sends one frame: all of it, or its first bytes only
PeerSend(c, frame, first) ==
    /\ running = 0
    /\ pc[c] \notin {"new", "stopped"}
    /\ ~closed[c]
    /\ wire[c] = <<>>
    /\ sent < MaxSent
    /\ inbuf' = [inbuf EXCEPT ![c] = @ \o SubSeq(frame, 1, first)]
    /\ wire' = [wire EXCEPT ![c] = SubSeq(frame, first + 1, Len(frame))]
    /\ sent' = sent + 1
    /\ UNCHANGED <<sources, listeners, pc, exc, byte_data, message, out, closed,
                   iter, running, processed, created>>
    /\ UNCHANGED <<dispatch, codec>>

\* a source peer sends the rest of the frame it has started
PeerSendRest(c) ==
    /\ running = 0
    /\ ~closed[c]
    /\ wire[c] # <<>>
    /\ inbuf' = [inbuf EXCEPT ![c] = @ \o wire[c]]
    /\ wire' = [wire EXCEPT ![c] = <<>>]
    /\ UNCHANGED <<sources, listeners, pc, exc, byte_data, message, out, closed,
                   iter, running, processed, created, sent>>
    /\ UNCHANGED <<dispatch, codec>>

\* a peer closes its connection and the server's stream becomes closed
PeerClose(c) ==
    /\ running = 0
    /\ pc[c] # "new"
    /\ exc[c] = "None"
    /\ ~closed[c]
    /\ closed' = [closed EXCEPT ![c] = TRUE]
    /\ UNCHANGED <<sources, listeners, pc, exc, inbuf, wire, byte_data, message,
                   out, iter, running, processed, created, sent>>
    /\ UNCHANGED <<dispatch, codec>>

(***************************************************************************)
(* Streams                                                                 *)
(***************************************************************************)
\* the sequence without the entries equal to key: dict.pop(key) on the keys
pop(keys, key) == SelectSeq(keys, LAMBDA k : k # key)

\* a data read that asks for one chunk whatever the count of fields is
Need_one_chunk(stage, data) ==
    CASE stage = "num" -> 2
      [] stage = "source_id" -> 8
      [] stage = "data" -> chunk_size
      [] OTHER -> 1

\* reads that take one byte more than the check sum
Need_wide_check_sum(stage, data) ==
    CASE stage = "num" -> 2
      [] stage = "source_id" -> 8
      [] stage = "data" -> data[Len(data)] * chunk_size
      [] stage = "check_sum" -> 2
      [] OTHER -> 1

\* number of bytes the read of a stage asks for, given decode_stream's
\* byte_data so far (its last byte is numfields when the data is read)
Need(stage, data) ==
    CASE stage = "num" -> 2
      [] stage = "source_id" -> 8
      [] stage = "data" -> data[Len(data)] * chunk_size
      [] OTHER -> 1

\* stream.read_bytes(n) can complete: the bytes are there (also on a stream
\* that has been closed since they arrived)
CanRead(c) == Len(inbuf[c]) >= Need(pc[c], byte_data[c])

\* the stage decode_stream reaches after the read of stage `stage`
NextStage(stage, got) ==
    CASE stage = "num" -> "source_id"
      [] stage = "source_id" -> "status"
      [] stage = "status" -> "numfields"
      [] stage = "numfields" -> IF from_bytes(got) > 0 THEN "data" ELSE "check_sum"
      [] stage = "data" -> "check_sum"
      [] stage = "check_sum" -> "decode"

\* reads that hand over whatever has arrived as if it were the frame
decode_stream_reads_eager(stage, data, buf) ==
    [stage |-> "decode", byte_data |-> data \o buf, inbuf |-> <<>>]

RECURSIVE decode_stream_reads(_, _, _)
\* SourceMessage.decode_stream from the read of `stage` on: a read whose
\* bytes are there completes at once and the next one follows; the task is
\* suspended in the first read whose bytes have not all arrived. A read
\* consumes exactly the bytes it returns.
decode_stream_reads(stage, data, buf) ==
    IF stage = "decode" \/ Len(buf) < Need(stage, data)
    THEN [stage |-> stage, byte_data |-> data, inbuf |-> buf]
    ELSE LET got == SubSeq(buf, 1, Need(stage, data))
         IN decode_stream_reads(NextStage(stage, got), data \o got,
                                SubSeq(buf, Need(stage, data) + 1, Len(buf)))

(***************************************************************************)
(* BaseServer                                                              *)
(***************************************************************************)
\* connections are numbered in the order each endpoint accepts them
InOrder(c) == \A d \in Conns : (port(d) = port(c) /\ d < c) => pc[d] # "new"

\* the handler methods ApplicationServer defines
Handlers == {<<"handler_", "SourceMessage">>, <<"handler_", "default">>}

\* BaseServer._get_message_handler
get_message_handler(message_class) == <<"handler_", message_class>>

RECURSIVE catch_message_first(_, _, _)
\* a dispatch that asks the first allowed class only
catch_message_first(header, classes, methods) ==
    IF Len(classes) = 0 THEN Ok(<<"handler_", "default">>)
    ELSE IF header \in HEADERS(classes[1])
         THEN IF get_message_handler(classes[1]) \in methods
              THEN Ok(get_message_handler(classes[1]))
              ELSE Raise("ServerException")
    ELSE Ok(<<"handler_", "default">>)

RECURSIVE catch_message_lenient(_, _, _)
\* a dispatch that hands the message of a class without handler to
\* handler_default
catch_message_lenient(header, classes, methods) ==
    IF Len(classes) = 0 THEN Ok(<<"handler_", "default">>)
    ELSE IF header \in HEADERS(classes[1])
         THEN IF get_message_handler(classes[1]) \in methods
              THEN Ok(get_message_handler(classes[1]))
              ELSE Ok(<<"handler_", "default">>)
    ELSE catch_message_lenient(header, Tail(classes), methods)

RECURSIVE catch_message_of(_, _, _)
\* BaseServer.catch_message on a server whose class defines the handler
\* methods `methods`: the first allowed class that owns the header decides;
\* getattr of a method that is not there raises AttributeError, which is
\* turned into ServerException
catch_message_of(header, classes, methods) ==
    IF Len(classes) = 0 THEN Ok(<<"handler_", "default">>)
    ELSE IF header \in HEADERS(classes[1])
         THEN IF get_message_handler(classes[1]) \in methods
              THEN Ok(get_message_handler(classes[1]))
              ELSE Raise("ServerException")
    ELSE catch_message_of(header, Tail(classes), methods)

catch_message_from(header, classes) == catch_message_of(header, classes, Handlers)

\* a dispatch that hands every header to handler_SourceMessage
catch_message_any_header(header) == Ok(<<"handler_", "SourceMessage">>)

\* BaseServer.catch_message: the handler a header byte is dispatched to
catch_message(header) == catch_message_from(header, ALLOWED_MESSAGES)

\* a handle that sends every connection into the read loop
handle_source_mutant(c) ==
    /\ running = 0
    /\ pc[c] = "new"
    /\ InOrder(c)
    /\ pc' = [pc EXCEPT ![c] = "header"]
    /\ UNCHANGED <<sources, listeners, exc, inbuf, wire, byte_data, message, out,
                   closed, iter, running, processed, created, sent>>
    /\ UNCHANGED <<dispatch, codec>>

\* ApplicationServer.handle on the ingestion port: the connection's task
\* enters BaseServer.handle's read loop
handle_source(c) ==
    /\ running = 0
    /\ pc[c] = "new"
    /\ InOrder(c)
    /\ port(c) = SOURCE_PORT
    /\ pc' = [pc EXCEPT ![c] = "header"]
    /\ UNCHANGED <<sources, listeners, exc, inbuf, wire, byte_data, message, out,
                   closed, iter, running, processed, created, sent>>
    /\ UNCHANGED <<dispatch, codec>>

\* BaseServer.handle_stream: a read that cannot complete on a closed stream,
\* or an acknowledgement still being written when the stream closes, raises
\* StreamClosedError; handle_stream calls stream_closed_handler (a no-op)
stream_closed_handler(c) ==
    /\ running = 0
    /\ closed[c]
    /\ \/ pc[c] \in ReadStages /\ ~CanRead(c)
       \/ pc[c] = "written"
    /\ pc' = [pc EXCEPT ![c] = "stopped"]
    /\ exc' = [exc EXCEPT ![c] = "StreamClosedError"]
    /\ UNCHANGED <<sources, listeners, inbuf, wire, byte_data, message, out, closed,
                   iter, running, processed, created, sent>>
    /\ UNCHANGED <<dispatch, codec>>

(***************************************************************************)
(* ApplicationServer                                                       *)
(***************************************************************************)
\* self.sources.get(source_id): the position of the Source, or 0 for None
sources_get(srcs, source_id) ==
    IF \E i \in 1..Len(srcs) : srcs[i].source_id = source_id
    THEN CHOOSE i \in 1..Len(srcs) : srcs[i].source_id = source_id
    ELSE 0

\* the update without the lookup: a Source is built for every message
update_sources_mutant(srcs, msg) ==
    LET source == Source(msg.source_id, msg.status)
    IN IF source.error # "None"
       THEN [error |-> source.error, value |-> srcs]
       ELSE LET pushed == get_message(source.value, msg)
            IN IF pushed.error # "None"
               THEN [error |-> pushed.error, value |-> Append(srcs, source.value)]
               ELSE Ok(Append(srcs, pushed.value))

\* handler_SourceMessage, lines 84-90: look the source up, create and
\* register it if it is not there, then push the message to it; value is the
\* new self.sources (a Source whose push raised stays registered)
update_sources(srcs, msg) ==
    LET at == sources_get(srcs, msg.source_id)
    IN IF at = 0
       THEN LET source == Source(msg.source_id, msg.status)
            IN IF source.error # "None"
               THEN [error |-> source.error, value |-> srcs]
               ELSE LET pushed == get_message(source.value, msg)
                    IN IF pushed.error # "None"
                       THEN [error |-> pushed.error,
                             value |-> Append(srcs, source.value)]
                       ELSE Ok(Append(srcs, pushed.value))
       ELSE LET pushed == get_message(srcs[at], msg)
            IN IF pushed.error # "None"
               THEN [error |-> pushed.error, value |-> srcs]
               ELSE Ok([srcs EXCEPT ![at] = pushed.value])

\* an acknowledgement that does not copy the message's sequence number
ok_message_mutant(msg) == ServerMessage(0, HEADER_SUCCESS)

\* the acknowledgement handler_SourceMessage answers a decoded message with
ok_message(msg) == ServerMessage(msg.num, HEADER_SUCCESS)
\* the acknowledgement handler_SourceMessage answers a failure with
error_message == ServerMessage(0, HEADER_ERROR)

\* handler_SourceMessage, given how far decode_stream's reads got. While a
\* read is pending the task stays suspended in it. With the whole frame read
\* it is decoded, the source updated and the acknowledgement written;
\* InvalidMessageException and SourceException are answered with the error
\* acknowledgement, any other exception ends the task.
handler_SourceMessage(c, reads) ==
    LET frame == reads.byte_data
        decoded == SourceMessage_decode(frame)
        updated == IF decoded.error = "None"
                   THEN update_sources(sources, decoded.value)
                   ELSE decoded
        error == updated.error
        answer == IF error = "None"
                  THEN ServerMessage_encode(ok_message(decoded.value).value).value
                  ELSE ServerMessage_encode(error_message.value).value
        caught == error \in {"None", "InvalidMessageException", "SourceException"}
        \* the exception that leaves the handler: stream.write raises
        \* StreamClosedError on a closed stream
        raised == IF ~caught THEN error
                  ELSE IF closed[c] THEN "StreamClosedError"
                  ELSE "None"
    IN /\ inbuf' = [inbuf EXCEPT ![c] = reads.inbuf]
       /\ byte_data' = [byte_data EXCEPT ![c] = reads.byte_data]
       /\ IF reads.stage # "decode"
          THEN /\ pc' = [pc EXCEPT ![c] = reads.stage]
               /\ UNCHANGED <<sources, exc, message, out, processed, created>>
          ELSE
          /\ processed' = Append(processed,
                 [conn |-> c, frame |-> frame, error |-> error,
                  message |-> IF error = "None" THEN decoded.value ELSE NoMessage,
                  concurrent |-> {d \in SourceConns \ {c} : pc[d] \in MidFrame},
                  answer |-> IF raised = "None" THEN answer ELSE <<>>,
                  raised |-> raised])
          /\ sources' = IF decoded.error = "None" THEN updated.value ELSE sources
          /\ created' = IF decoded.error = "None" /\ Len(updated.value) > Len(sources)
                        THEN Append(created, decoded.value.source_id)
                        ELSE created
          /\ message' = [message EXCEPT ![c] =
                            IF error = "None" THEN decoded.value ELSE @]
          /\ exc' = [exc EXCEPT ![c] = raised]
          /\ IF raised # "None"
             THEN /\ pc' = [pc EXCEPT ![c] = "stopped"]
                  /\ UNCHANGED out
             ELSE /\ out' = [out EXCEPT ![c] = Append(@, answer)]
                  /\ pc' = [pc EXCEPT ![c] =
                               IF error = "None" THEN "written" ELSE "header"]

\* BaseServer.handle: one turn of the read loop. The header byte is read and
\* catch_message dispatches it: handler_SourceMessage runs decode_stream,
\* handler_default returns at once.
handle(c) ==
    /\ running = 0
    /\ pc[c] = "header"
    /\ CanRead(c)
    /\ LET header == from_bytes(SubSeq(inbuf[c], 1, 1))
           handler == catch_message(header)
       IN IF handler.error # "None"
          THEN /\ pc' = [pc EXCEPT ![c] = "stopped"]
               /\ exc' = [exc EXCEPT ![c] = handler.error]
               /\ inbuf' = [inbuf EXCEPT ![c] = Tail(@)]
               /\ UNCHANGED <<sources, byte_data, message, out, processed, created>>
          ELSE IF handler.value = <<"handler_", "SourceMessage">>
          THEN handler_SourceMessage(c,
                   decode_stream_reads("num", to_bytes(header, 1), Tail(inbuf[c])))
          ELSE /\ inbuf' = [inbuf EXCEPT ![c] = Tail(@)]
               /\ UNCHANGED <<sources, pc, exc, byte_data, message, out,
                              processed, created>>
    /\ UNCHANGED <<listeners, wire, closed, iter, running, sent>>
    /\ UNCHANGED <<dispatch, codec>>

\* SourceMessage.decode_stream resumed: the bytes of the read the task is
\* suspended in have arrived
decode_stream(c) ==
    /\ running = 0
    /\ pc[c] \in MidFrame
    /\ CanRead(c)
    /\ handler_SourceMessage(c, decode_stream_reads(pc[c], byte_data[c], inbuf[c]))
    /\ UNCHANGED <<listeners, wire, closed, iter, running, sent>>
    /\ UNCHANGED <<dispatch, codec>>

\* a send that suspends the broadcast until the write has completed
send_is_done_mutant == FALSE

\* BaseListener.send returns a future that is already done (the method has
\* no yield of its own), so `yield listener.send(...)` does not suspend
send_is_done == TRUE

\* a write that overtakes the one before it
listener_send_overtaking(written, bytes_data) ==
    IF Len(written) < 2 THEN Append(written, bytes_data)
    ELSE Append(SubSeq(written, 1, Len(written) - 1), bytes_data)
         \o <<written[Len(written)]>>

\* BaseListener.send on an open stream: stream.write queues the bytes behind
\* what was written before
listener_send(written, bytes_data) == Append(written, bytes_data)

\* broadcast_message, lines 123-124: the test of self.listeners and the
\* start of the loop over self.listeners.items()
broadcast_begin(c) ==
    /\ running = 0
    /\ pc[c] = "written"
    /\ IF Len(listeners) = 0
       THEN /\ pc' = [pc EXCEPT ![c] = "header"]
            /\ iter' = [iter EXCEPT ![c] = [NoIter EXCEPT !.state = "returned",
                                                          !.returned = iter[c].returned + 1]]
            /\ UNCHANGED running
       ELSE /\ pc' = [pc EXCEPT ![c] = "broadcast"]
            /\ iter' = [iter EXCEPT ![c] =
                   [state |-> "running", pos |-> 1, used |-> Len(listeners),
                    start |-> listeners,
                    open |-> {listeners[i] : i \in {j \in 1..Len(listeners) :
                                                      ~closed[listeners[j]]}},
                    delivered |-> <<>>, failed |-> <<>>,
                    returned |-> iter[c].returned]]
            /\ running' = c
    /\ UNCHANGED <<sources, listeners, exc, inbuf, wire, byte_data, message, out,
                   closed, processed, created, sent>>
    /\ UNCHANGED <<dispatch, codec>>

\* broadcast_message, lines 124-129: one turn of the loop. The dict iterator
\* raises RuntimeError when the dict's size is not the one it started with;
\* at the end of the keys the loop ends and the handler returns to the read
\* loop; otherwise the listener is sent str(message), and popped when send
\* raises ListenerClosedException
broadcast_message(c) ==
    /\ running \in {0, c}
    /\ pc[c] = "broadcast"
    /\ IF Len(listeners) # iter[c].used
       THEN /\ pc' = [pc EXCEPT ![c] = "stopped"]
            /\ exc' = [exc EXCEPT ![c] = "RuntimeError"]
            /\ iter' = [iter EXCEPT ![c].state = "RuntimeError"]
            /\ running' = 0
            /\ UNCHANGED <<listeners, out>>
       ELSE IF iter[c].pos > Len(listeners)
       THEN /\ pc' = [pc EXCEPT ![c] = "header"]
            /\ iter' = [iter EXCEPT ![c].state = "returned",
                                    ![c].returned = @ + 1]
            /\ running' = 0
            /\ UNCHANGED <<listeners, out, exc>>
       ELSE LET listener_id == listeners[iter[c].pos]
            IN /\ IF closed[listener_id]
                  THEN /\ listeners' = pop(listeners, listener_id)
                       /\ iter' = [iter EXCEPT ![c].failed = Append(@, listener_id)]
                       /\ UNCHANGED out
                  ELSE /\ out' = [out EXCEPT ![listener_id] =
                              listener_send(@, utf8_encode(SourceMessage_str(message[c])))]
                       /\ iter' = [iter EXCEPT ![c].delivered = Append(@, listener_id),
                                               ![c].pos = @ + 1]
                       /\ UNCHANGED listeners
               /\ running' = IF send_is_done THEN c ELSE 0
               /\ UNCHANGED <<pc, exc>>
    /\ UNCHANGED <<sources, inbuf, wire, byte_data, message, closed, processed,
                   created, sent>>
    /\ UNCHANGED <<dispatch, codec>>

\* self.listeners[address] = listener: a new key goes last
dict_put(keys, key) ==
    IF \E i \in 1..Len(keys) : keys[i] = key THEN keys ELSE Append(keys, key)

\* a handler that keeps the listener whose snapshot could not be written
after_snapshot_mutant(registered, address, write_fails) == registered

\* handle_listener, lines 61-64: self.listeners after the snapshot is sent;
\* a listener whose send raised ListenerClosedException is popped
after_snapshot(registered, address, write_fails) ==
    IF write_fails THEN pop(registered, address) ELSE registered

RECURSIVE source_lines(_, _)
\* [str(source) for source in self.sources.values()]
source_lines(srcs, elapsed) ==
    IF Len(srcs) = 0 THEN <<>>
    ELSE Append(source_lines(SubSeq(srcs, 1, Len(srcs) - 1), elapsed),
                Source_str(srcs[Len(srcs)], elapsed[Len(srcs)]))

\* 'No sources yet'
NoSourcesYet == <<78, 111, 32, 115, 111, 117, 114, 99, 101, 115, 32, 121, 101, 116>>

\* a snapshot without the text that stands for an empty registry
last_messages_mutant(srcs, elapsed) ==
    join(<<10>>, source_lines(srcs, elapsed)) \o <<10>>

\* handle_listener, lines 57-60: the text of the snapshot
last_messages(srcs, elapsed) ==
    LET joined == join(<<10>>, source_lines(srcs, elapsed))
    IN (IF Len(joined) = 0 THEN NoSourcesYet ELSE joined) \o <<10>>

\* ApplicationServer.handle on the broadcast port: handle_listener registers
\* the listener and sends it the snapshot; a listener whose stream is closed
\* at that write is popped again. The task then ends.
handle_listener(c, E) ==
    /\ running = 0
    /\ pc[c] = "new"
    /\ InOrder(c)
    /\ port(c) = LISTENER_PORT
    /\ \E elapsed \in [1..Len(sources) -> E], write_fails \in BOOLEAN :
          LET registered == dict_put(listeners, c)
          IN /\ listeners' = after_snapshot(registered, c, write_fails)
             /\ IF write_fails
                THEN /\ closed' = [closed EXCEPT ![c] = TRUE]
                     /\ UNCHANGED out
                ELSE /\ out' = [out EXCEPT ![c] =
                            Append(@, utf8_encode(last_messages(sources, elapsed)))]
                     /\ UNCHANGED closed
    /\ pc' = [pc EXCEPT ![c] = "done"]
    /\ UNCHANGED <<sources, exc, inbuf, wire, byte_data, message, iter, running,
                   processed, created, sent>>
    /\ UNCHANGED <<dispatch, codec>>

(***************************************************************************)
(* BaseServer with the configurations of its tests: the allowed message    *)
(* classes MockMessage1 and MockMessage2, whose handlers read a body of    *)
(* two bytes, and one connection.                                          *)
(***************************************************************************)
\* the state of the ApplicationServer and its connections
app_vars == <<sources, listeners, pc, exc, inbuf, wire, byte_data, message, out,
              closed, iter, running, processed, created, sent>>

\* number of messages the test client writes
MaxWritten == 3

\* ALLOWED_MESSAGES of the test servers: None, one class, two classes
TestAllowed ==
    {<<>>, <<"MockMessage1">>, <<"MockMessage1", "MockMessage2">>}
\* the handler methods a test server may define besides handler_default
TestMethods ==
    SUBSET {<<"handler_", "MockMessage1">>, <<"handler_", "MockMessage2">>}
\* what the test client writes: a header byte with a body of two bytes, or a
\* lone byte that no class owns
TestMessages == {<<255, 1, 2>>, <<3, 255, 171>>, <<7>>}

RECURSIVE TestWrites(_)
\* the byte strings of at most n messages
TestWrites(n) ==
    IF n = 0 THEN {<<>>}
    ELSE TestWrites(n - 1)
         \cup {w \o m : w \in TestWrites(n - 1), m \in TestMessages}

\* a test server is started and the client has connected to it
DispatchInit ==
    /\ AppInit
    /\ codec = NoCodec
    /\ \E allowed \in TestAllowed, methods \in TestMethods,
          rest \in TestWrites(MaxWritten) :
          dispatch = [pc |-> "header", allowed |-> allowed,
                      methods |-> methods \cup {<<"handler_", "default">>},
                      written |-> rest, rest |-> rest, stream |-> <<>>,
                      exc |-> "None", raises |-> "None",
                      read |-> <<>>, calls |-> <<>>, bodies |-> <<>>]

\* catch_message's try around the call of the handler: an AttributeError
\* that comes out of the handler is caught like the one of getattr and
\* ServerException raised; any other exception leaves catch_message as it is
handler_raised(error) ==
    IF error = "AttributeError" THEN "ServerException" ELSE error

\* the handler of a class has read its body: it returns, or it raises the
\* error the handlers of this server raise while they process a message
handler_returns(d, body) ==
    IF d.raises = "None"
    THEN [d EXCEPT !.pc = "header", !.bodies = Append(@, body)]
    ELSE [d EXCEPT !.pc = "stopped", !.bodies = Append(@, body),
                   !.exc = handler_raised(d.raises)]

\* stream.write of the client: the next bytes arrive, one or all of them
TestClientWrite ==
    /\ dispatch.pc # "none"
    /\ Len(dispatch.rest) > 0
    /\ \E n \in {1, Len(dispatch.rest)} :
          dispatch' = [dispatch EXCEPT
                          !.stream = @ \o SubSeq(dispatch.rest, 1, n),
                          !.rest = SubSeq(@, n + 1, Len(@))]
    /\ UNCHANGED <<app_vars, codec>>

\* BaseServer.handle, one turn of the loop: the header byte is read and
\* catch_message invokes the handler of its class, or handler_default, or
\* raises ServerException; a handler of a class reads its body of two bytes
\* and is suspended in that read until they have arrived
BaseServer_handle ==
    /\ dispatch.pc = "header"
    /\ Len(dispatch.stream) >= 1
    /\ LET header == from_bytes(SubSeq(dispatch.stream, 1, 1))
           after == Tail(dispatch.stream)
           handler == catch_message_of(header, dispatch.allowed, dispatch.methods)
       IN IF handler.error # "None"
          THEN dispatch' = [dispatch EXCEPT !.pc = "stopped",
                                            !.exc = handler.error,
                                            !.stream = after,
                                            !.read = Append(@, header)]
          ELSE IF handler.value = <<"handler_", "default">>
          THEN dispatch' = [dispatch EXCEPT
                               !.stream = after,
                               !.read = Append(@, header),
                               !.calls = Append(@, [handler |-> handler.value,
                                                    header |-> header])]
          ELSE LET called == [dispatch EXCEPT
                                 !.read = Append(@, header),
                                 !.calls = Append(@, [handler |-> handler.value,
                                                      header |-> header])]
               IN dispatch' =
                     IF Len(after) >= 2
                     THEN handler_returns(
                              [called EXCEPT !.stream = SubSeq(after, 3, Len(after))],
                              SubSeq(after, 1, 2))
                     ELSE [called EXCEPT !.pc = "body", !.stream = after]
    /\ UNCHANGED <<app_vars, codec>>

\* a handler of the test servers resumed: `body = yield stream.read_bytes(2)`
handler_MockMessage ==
    /\ dispatch.pc = "body"
    /\ Len(dispatch.stream) >= 2
    /\ dispatch' = handler_returns(
                       [dispatch EXCEPT !.stream = SubSeq(@, 3, Len(@))],
                       SubSeq(dispatch.stream, 1, 2))
    /\ UNCHANGED <<app_vars, codec>>

DispatchNext ==
    \/ TestClientWrite
    \/ BaseServer_handle
    \/ handler_MockMessage

DispatchSpec == DispatchInit /\ [][DispatchNext]_vars

\* the errors a handler of a server may raise while it processes a message
HandlerErrors == {"None", "AttributeError", "ValueError"}

\* a test server whose handlers raise one of the errors, or none, is started
\* and the client has connected to it
RaisingInit ==
    /\ AppInit
    /\ codec = NoCodec
    /\ \E allowed \in TestAllowed, methods \in TestMethods,
          rest \in TestWrites(MaxWritten), raises \in HandlerErrors :
          dispatch = [pc |-> "header", allowed |-> allowed,
                      methods |-> methods \cup {<<"handler_", "default">>},
                      written |-> rest, rest |-> rest, stream |-> <<>>,
                      exc |-> "None", raises |-> raises,
                      read |-> <<>>, calls |-> <<>>, bodies |-> <<>>]

RaisingSpec == RaisingInit /\ [][DispatchNext]_vars

(***************************************************************************)
(* The codecs alone: decode_stream of either message class reads one frame *)
(* from a stream on which the transport delivers the bytes in chunks, the  *)
(* header byte having been read by the caller.                             *)
(***************************************************************************)
\* bytes_data0 of the tests: no data
bytes_data0 == <<1, 0, 1, 0, 0, 0, 0, 0, 97, 98, 99, 1, 0, 97>>

\* bytes_data2 of the tests: two fields, 'abc' and 'def'
bytes_data2 ==
    <<1, 0, 1, 0, 0, 0, 0, 0, 97, 98, 99, 1, 2,
      0, 0, 0, 0, 0, 97, 98, 99, 0, 1, 2, 3,
      0, 0, 0, 0, 0, 100, 101, 102, 0, 3, 2, 1,
      100>>

\* the frames of SourceMessage given to the codec: what the peers send, the
\* two-field frame of the tests, a frame that names the field 'k' twice, and
\* frames of header 0 and of the foreign header 2; the frame of the repeated
\* field and the first frame of header 0 end with the check sum of the
\* message they decode to, the others with the XOR of their own bytes
SourceFrames ==
    LET first == SourceMessage_encode(
                    SourceMessage(1, <<97>>, STATUS_IDLE, 0, NoneData).value).value
        raw == SubSeq(first, 1, Len(first) - 1)
        k(value) == ZeroBytes(7) \o <<107>> \o to_bytes(value, 4)
        twice == <<1, 0, 1>> \o ZeroBytes(7) \o <<97, STATUS_IDLE, 2>> \o k(5) \o k(7)
        last == SourceMessage(1, <<97>>, STATUS_IDLE, 1, Dict(<<<<<<107>>, 7>>>>)).value
    IN PeerFrames
       \cup { bytes_data2 }
       \cup { Append(twice, SourceMessage_check_sum(last)) }
       \cup { Append(Patch(raw, 0, 0), first[Len(first)]) }
       \cup { WithCheckSum(Patch(raw, 0, 0)) }
       \cup { WithCheckSum(Patch(raw, 0, 2)) }

\* the frames of ServerMessage given to the codec: server_message1..3 of the
\* tests and an acknowledgement whose check sum byte is wrong
ServerFrames ==
    { <<17, 0, 1, 16>>, <<18, 0, 0, 18>>, <<18, 0, 1, 18>>, <<17, 0, 1, 0>> }

\* what may follow the frame on the stream: nothing, or the next header
Following == {<<>>, <<1>>}

\* ServerMessage.decode_stream: the reads of num (2 bytes) and of the check
\* sum (1 byte)
ServerMessage_Need(stage) == IF stage = "num" THEN 2 ELSE 1
ServerMessage_NextStage(stage) == IF stage = "num" THEN "check_sum" ELSE "decode"

RECURSIVE ServerMessage_decode_stream_reads(_, _, _)
\* ServerMessage.decode_stream from the read of `stage` on, up to the read
\* in which it is suspended
ServerMessage_decode_stream_reads(stage, data, buf) ==
    IF stage = "decode" \/ Len(buf) < ServerMessage_Need(stage)
    THEN [stage |-> stage, byte_data |-> data, inbuf |-> buf]
    ELSE LET got == SubSeq(buf, 1, ServerMessage_Need(stage))
         IN ServerMessage_decode_stream_reads(
                ServerMessage_NextStage(stage), data \o got,
                SubSeq(buf, ServerMessage_Need(stage) + 1, Len(buf)))

\* decode of the class whose decode_stream runs, applied to a whole frame
DecodeOf(class, frame) ==
    IF class = "SourceMessage" THEN SourceMessage_decode(frame)
    ELSE ServerMessage_decode(frame)

\* cls.decode_stream(stream, header) has been called with the header byte of
\* the frame and is suspended in its first read; nothing has arrived yet
CodecInit ==
    /\ AppInit
    /\ dispatch = NoDispatch
    /\ \E class \in {"SourceMessage", "ServerMessage"}, after \in Following :
          \E frame \in (IF class = "SourceMessage" THEN SourceFrames
                        ELSE ServerFrames) :
             codec = [class |-> class, frame |-> frame, following |-> after,
                      rest |-> Tail(frame) \o after, stream |-> <<>>,
                      stage |-> "num", byte_data |-> to_bytes(frame[1], 1),
                      resumed |-> 0, result |-> Raise("pending")]

\* the transport delivers the next chunk: one byte, or all that is left
TransportDelivers ==
    /\ codec.stage # "none"
    /\ Len(codec.rest) > 0
    /\ \E n \in {1, Len(codec.rest)} :
          codec' = [codec EXCEPT !.stream = @ \o SubSeq(codec.rest, 1, n),
                                 !.rest = SubSeq(@, n + 1, Len(@))]
    /\ UNCHANGED <<app_vars, dispatch>>

\* the coroutine resumed with the state the reads `reads` left it in:
\* suspended again, or `message = cls.decode(byte_data)` and return
decode_stream_resumed(reads, decoded) ==
    /\ codec' = [codec EXCEPT
                    !.stage = IF reads.stage = "decode" THEN "done" ELSE reads.stage,
                    !.byte_data = reads.byte_data,
                    !.stream = reads.inbuf,
                    !.resumed = @ + 1,
                    !.result = IF reads.stage = "decode" THEN decoded ELSE @]
    /\ UNCHANGED <<app_vars, dispatch>>

\* SourceMessage.decode_stream, resumed when its pending read can complete
SourceMessage_decode_stream ==
    /\ codec.stage \in MidFrame
    /\ codec.class = "SourceMessage"
    /\ Len(codec.stream) >= Need(codec.stage, codec.byte_data)
    /\ LET reads == decode_stream_reads(codec.stage, codec.byte_data, codec.stream)
       IN decode_stream_resumed(reads, SourceMessage_decode(reads.byte_data))

\* ServerMessage.decode_stream, resumed when its pending read can complete
ServerMessage_decode_stream ==
    /\ codec.stage \in MidFrame
    /\ codec.class = "ServerMessage"
    /\ Len(codec.stream) >= ServerMessage_Need(codec.stage)
    /\ LET reads == ServerMessage_decode_stream_reads(codec.stage, codec.byte_data,
                                                      codec.stream)
       IN decode_stream_resumed(reads, ServerMessage_decode(reads.byte_data))

CodecNext ==
    \/ TransportDelivers
    \/ SourceMessage_decode_stream
    \/ ServerMessage_decode_stream

CodecSpec == CodecInit /\ [][CodecNext]_vars

(***************************************************************************)
(* The messages alone: a message is constructed, its status may be         *)
(* assigned, it is encoded, the frame may be damaged in one bit, and the   *)
(* frame is decoded; a Source may be updated from the message.             *)
(***************************************************************************)
\* number of entries of the largest field map
MaxEntries == 256
\* the longest frame that is damaged: one of two fields
MaxDamaged == 38

\* 'abc', 'def', 'abcdefgh', 'abcdefghi', a text of one two-byte character
\* and a text with a NUL character inside
abc == <<97, 98, 99>>
def == <<100, 101, 102>>
Texts ==
    { <<>>, abc, abc \o def \o <<103, 104>>, abc \o def \o <<103, 104, 105>>,
      <<233>>, <<97, 0, 98>> }

\* a dict of n entries with distinct two-letter names
Entries(n) ==
    Dict([i \in 1..n |-> << <<65 + ((i - 1) \div 16), 65 + ((i - 1) % 16)>>, i >>])

\* the values of `data`: None, {}, the dicts of the tests (the one of two
\* fields in both insertion orders), a dict with a long name, one with a
\* name of a two-byte character, one with a value to_bytes refuses, and one
\* of MaxEntries entries
Datas ==
    { NoneData, Dict(<<>>),
      Dict(<< <<abc, 66051>> >>),
      Dict(<< <<abc, 66051>>, <<def, 197121>> >>),
      Dict(<< <<def, 197121>>, <<abc, 66051>> >>),
      Dict(<< <<<<98>>, 1>>, <<<<97, 98>>, 2>> >>),
      Dict(<< <<abc \o def \o <<103, 104, 105>>, 1>> >>),
      Dict(<< <<<<233>>, 2147483647>> >>),
      Dict(<< <<abc, -1>> >>),
      Entries(MaxEntries) }

\* SourceMessage(1, 'abc', STATUS_IDLE, 0x01, None) of the tests
TestArgs ==
    [num |-> 1, source_id |-> abc, status |-> STATUS_IDLE, header |-> 1,
     data |-> NoneData]

\* the arguments SourceMessage is constructed with: those of the tests with
\* one of them changed, and one message where all differ
SourceArgs ==
    {[TestArgs EXCEPT !.num = n] : n \in {0, 65535, 65536}}
    \cup {[TestArgs EXCEPT !.source_id = t] : t \in Texts}
    \cup {[TestArgs EXCEPT !.status = s] : s \in {0, 1, 2, 3, 4}}
    \cup {[TestArgs EXCEPT !.header = h] : h \in {0, 1, 2}}
    \cup {[TestArgs EXCEPT !.data = d] : d \in Datas}
    \cup {[num |-> 65535, source_id |-> def, status |-> STATUS_RECHARGE,
           header |-> 0, data |-> Dict(<< <<def, 197121>>, <<abc, 66051>> >>)]}

\* the arguments ServerMessage is constructed with
ServerArgs ==
    [num : {0, 1, 65535, 65536}, header : {0, HEADER_SUCCESS, HEADER_ERROR, 19}]

\* the statuses assigned to a message or to a Source
Assigned == {0, STATUS_ACTIVE, 4, 256}

\* the constructor of the class
construct_message(class, args) ==
    IF class = "SourceMessage"
    THEN SourceMessage(args.num, args.source_id, args.status, args.header, args.data)
    ELSE ServerMessage(args.num, args.header)

\* message.encode() of the class
encode_message(class, msg) ==
    IF class = "SourceMessage" THEN SourceMessage_encode(msg)
    ELSE ServerMessage_encode(msg)

\* bit `bit` (0 the lowest) of the byte
BitOf(byte, bit) == (byte \div (2 ^ bit)) % 2
\* the frame with bit `bit` of its byte at 0-based place `at` flipped
FlipBit(frame, at, bit) ==
    Patch(frame, at,
          IF BitOf(frame[at + 1], bit) = 1 THEN frame[at + 1] - 2 ^ bit
          ELSE frame[at + 1] + 2 ^ bit)

\* the place is the first byte of a field value of a SourceMessage frame
IsValueTop(at) == at >= 21 /\ (at - 13) % chunk_size = 8

MessageInit ==
    /\ AppInit
    /\ dispatch = NoDispatch
    /\ \E class \in {"SourceMessage", "ServerMessage"} :
          \E args \in (IF class = "SourceMessage" THEN SourceArgs ELSE ServerArgs) :
             codec = [stage |-> "args", class |-> class, args |-> args,
                      message |-> Raise("pending"), assigned |-> <<>>,
                      raw |-> Raise("pending"), flipped |-> <<>>,
                      payload |-> <<>>, decoded |-> Raise("pending"),
                      source |-> Raise("pending")]

\* cls(...): the constructor returns the message or raises
Message_construct ==
    /\ codec.stage = "args"
    /\ LET built == construct_message(codec.class, codec.args)
       IN codec' = [codec EXCEPT
                       !.stage = IF built.error = "None" THEN "message"
                                 ELSE "rejected",
                       !.message = built]
    /\ UNCHANGED <<app_vars, dispatch>>

\* message.status = value: SourceMessage defines no setter, the attribute
\* takes the value
Message_assign_status ==
    /\ codec.stage = "message"
    /\ codec.class = "SourceMessage"
    /\ codec.assigned = <<>>
    /\ \E value \in Assigned :
          codec' = [codec EXCEPT !.message.value.status = value,
                                 !.assigned = <<value>>]
    /\ UNCHANGED <<app_vars, dispatch>>

\* Source(message.source_id, status) followed by source.get_message(message),
\* as handler_SourceMessage does for a new identifier, or by
\* source.status = value
Source_update ==
    /\ codec.stage = "message"
    /\ codec.class = "SourceMessage"
    /\ \E status \in {0, STATUS_RECHARGE, 4}, value \in Assigned \cup {-1} :
          LET source == Source(codec.message.value.source_id, status)
          IN codec' = [codec EXCEPT
                          !.stage = "source",
                          !.assigned = @ \o <<status, value>>,
                          !.source =
                              IF source.error # "None" THEN source
                              ELSE IF value = -1
                              THEN get_message(source.value, codec.message.value)
                              ELSE set_status(source.value, value)]
    /\ UNCHANGED <<app_vars, dispatch>>

\* message.encode(): the frame, or the exception raised
Message_encode ==
    /\ codec.stage = "message"
    /\ LET raw == encode_message(codec.class, codec.message.value)
       IN codec' = [codec EXCEPT
                       !.stage = IF raw.error = "None" THEN "encoded"
                                 ELSE "not_encoded",
                       !.raw = raw,
                       !.payload = raw.value]
    /\ UNCHANGED <<app_vars, dispatch>>

\* one bit of a byte before the check sum byte is flipped on the way (the
\* top bit of a field value is left alone: the value stays below 2^31)
Frame_damaged ==
    /\ codec.stage = "encoded"
    /\ Len(codec.payload) <= MaxDamaged
    /\ \E at \in 0..(Len(codec.payload) - 2), bit \in 0..7 :
          /\ ~(codec.class = "SourceMessage" /\ IsValueTop(at) /\ bit = 7)
          /\ codec' = [codec EXCEPT
                          !.stage = "damaged",
                          !.flipped = <<at, bit>>,
                          !.payload = FlipBit(codec.payload, at, bit)]
    /\ UNCHANGED <<app_vars, dispatch>>

\* cls.decode(payload): the message, or the exception raised
Message_decode ==
    /\ codec.stage \in {"encoded", "damaged"}
    /\ codec' = [codec EXCEPT
                    !.stage = "decoded",
                    !.decoded = DecodeOf(codec.class, codec.payload)]
    /\ UNCHANGED <<app_vars, dispatch>>

MessageNext ==
    \/ Message_construct
    \/ Message_assign_status
    \/ Source_update
    \/ Message_encode
    \/ Frame_damaged
    \/ Message_decode

MessageSpec == MessageInit /\ [][MessageNext]_vars

(***************************************************************************)
(* The specifications                                                      *)
(***************************************************************************)
\* the steps of the connections S accepted on the ingestion endpoint and L
\* accepted on the broadcast endpoint: the peers P send frames, the n-th
\* frame sent being one of F[n] (whole, or cut at a place in K), any peer may
\* close, and the server runs its tasks for the connections, a snapshot
\* finding the sources' last messages of the ages E
Steps(S, L, P, F, K, E) ==
    \/ \E c \in P, frame \in F[sent + 1] :
          \E first \in K \cup {Len(frame)} : PeerSend(c, frame, first)
    \/ \E c \in P : PeerSendRest(c)
    \/ \E c \in S \cup L : PeerClose(c)
    \/ \E c \in S \cup L : handle_source(c)
    \/ \E c \in S \cup L : handle(c)
    \/ \E c \in S \cup L : decode_stream(c)
    \/ \E c \in S \cup L : stream_closed_handler(c)
    \/ \E c \in S \cup L : broadcast_begin(c)
    \/ \E c \in S \cup L : broadcast_message(c)
    \/ \E c \in S \cup L : handle_listener(c, E)

\* Ingestion: every source connection, every kind of frame in any order,
\* whole or in two pieces, and the first IngestListeners listeners
AnyFrame == [n \in 1..(MaxSent + 1) |-> PeerFrames]

Next ==
    Steps(SourceConns, IngestListenerConns, SourceConns, AnyFrame, SplitAt,
          ElapsedMs)

Spec == Init /\ [][Next]_vars

\* Broadcast: every source connection and every listener connection; the
\* peers send the well-formed frames only, in the order of their sequence
\* numbers, whole or in two pieces
GoodFrameInOrder ==
    [n \in 1..(MaxSent + 1) |->
        {frame \in GoodFrames : SourceMessage_decode(frame).value.num = n}]

BroadcastNext ==
    Steps(SourceConns, ListenerConns, SourceConns, GoodFrameInOrder, SplitAt, {0})

BroadcastSpec == Init /\ [][BroadcastNext]_vars

\* History: one source identifier, whose n-th frame sent has number n and
\* one of two statuses
StatusFrameInOrder ==
    [n \in 1..(MaxSent + 1) |->
        {SourceMessage_encode(SourceMessage(n, <<97>>, s, 0, NoneData).value).value :
            s \in {STATUS_IDLE, STATUS_RECHARGE}}]

HistoryNext ==
    Steps(SourceConns, IngestListenerConns, SourceConns, StatusFrameInOrder,
          SplitAt, {0})

HistorySpec == Init /\ [][HistoryNext]_vars

\* Stray headers: the peers send the well-formed frames in the order of their
\* sequence numbers, some with a byte in front that no allowed class owns
StrayHeaders == {0, 17, 18, 255}
StrayFrameInOrder ==
    [n \in 1..(MaxSent + 1) |->
        GoodFrameInOrder[n]
        \cup {<<h>> \o frame : h \in StrayHeaders, frame \in GoodFrameInOrder[n]}]

StrayNext ==
    Steps(SourceConns, IngestListenerConns, SourceConns, StrayFrameInOrder,
          SplitAt, {0})

StraySpec == Init /\ [][StrayNext]_vars

\* Routing: the connections of both endpoints send frames, those accepted on
\* the broadcast endpoint too
RoutingNext ==
    Steps(SourceConns, IngestListenerConns, SourceConns \cup IngestListenerConns,
          GoodFrameInOrder, SplitAt, {0})

RoutingSpec == Init /\ [][RoutingNext]_vars

\* Scheduling: the IOLoop runs every callback that is ready, so the task of a
\* connection that can run does run; the peers are under no obligation to
\* send or to close. TaskReady(c) is the disjunction of the guards of the
\* steps of c's task.
TaskReady(c) ==
    \/ running = 0 /\ pc[c] = "new" /\ InOrder(c)
    \/ running = 0 /\ pc[c] \in ReadStages /\ CanRead(c)
    \/ running = 0 /\ pc[c] \in ReadStages /\ closed[c]
    \/ running = 0 /\ pc[c] = "written"
    \/ running \in {0, c} /\ pc[c] = "broadcast"

\* where a task may stand
Stages == ReadStages \cup {"new", "written", "broadcast", "stopped", "done"}

\* the task of c runs until it stands elsewhere: the step that takes it out
\* of the stage it is in. Only c's task changes pc[c], every step of it but
\* a turn of the loop over the listeners does, and that loop is finite.
TaskAdvances(c) ==
    /\ TaskReady(c)
    /\ \E stage \in Stages \ {pc[c]} : pc' = [pc EXCEPT ![c] = stage]

\* valid frames in order, whole or in two pieces, on the source connections,
\* and the first IngestListeners listeners
FairNext ==
    Steps(SourceConns, IngestListenerConns, SourceConns, GoodFrameInOrder,
          SplitAt, {0})

FairSpec ==
    /\ Init
    /\ [][FairNext]_vars
    /\ \A c \in SourceConns \cup IngestListenerConns : WF_pc(TaskAdvances(c))

(***************************************************************************)
(* Properties                                                              *)
(***************************************************************************)
\* number of times x occurs in the sequence s
Count(s, x) == Cardinality({i \in 1..Len(s) : s[i] = x})
\* the elements of the sequence s
Range(s) == {s[i] : i \in 1..Len(s)}
\* a broadcast of connection c is over: it returned or an exception ended it
BroadcastOver(c) == iter[c].state \in {"returned", "RuntimeError"}

\* C1: when a broadcast is over, every listener that was registered with an
\* open transport when it started has been written the summary exactly
\* once, whatever listeners with a closed transport the registry held.
C1_OpenListenersAllReceive ==
    \A c \in SourceConns :
        BroadcastOver(c) =>
            \A l \in iter[c].open : Count(iter[c].delivered, l) = 1

\* C2: a broadcast in which a listener's write failed still returns to the
\* handler, and the connection's task goes on with its read loop: no
\* exception of the broadcast ends it.
C2_ListenerFailureStaysOffSourcePath ==
    \A c \in SourceConns :
        (BroadcastOver(c) /\ Len(iter[c].failed) > 0) =>
            /\ iter[c].state = "returned"
            /\ exc[c] # "RuntimeError"

\* the bytes of the ERROR acknowledgement: header 0x12, sequence 0, check sum
ErrorAckBytes == <<18, 0, 0, 18>>

\* C3: every frame of header 0x01 whose decoding or validation failed, read
\* on a connection that was open when it was answered, was answered with
\* exactly one ERROR acknowledgement and left the task in its read loop.
C3_DecodeFailureAnswered ==
    \A i \in 1..Len(processed) :
        (processed[i].error # "None" /\ processed[i].raised # "StreamClosedError") =>
            /\ processed[i].raised = "None"
            /\ processed[i].answer = ErrorAckBytes

\* the entries of processed whose message was recorded in the registry
Recorded == {i \in 1..Len(processed) : processed[i].error = "None"}
\* the recorded messages that bear the identifier, in processing order
Bearing(source_id) ==
    LET entries == SelectSeq(processed, LAMBDA p :
                       p.error = "None" /\ p.message.source_id = source_id)
    IN [i \in 1..Len(entries) |-> entries[i].message]

\* C4: the registry holds one Source per identifier, it holds a Source for X
\* exactly when a valid message bearing X has been processed, and the
\* history of X is the sequence of all valid messages bearing X in
\* processing order, whichever connections sent them and whichever of them
\* have been closed since; X's status is the one of its last message.
C4_RegistryIsTheRecordedHistory ==
    /\ \A i, j \in 1..Len(sources) :
           sources[i].source_id = sources[j].source_id => i = j
    /\ \A i \in 1..Len(sources) :
           /\ sources[i].messages = Bearing(sources[i].source_id)
           /\ Len(sources[i].messages) > 0
           /\ sources[i].status = sources[i].messages[Len(sources[i].messages)].status
    /\ \A k \in Recorded :
           \E i \in 1..Len(sources) :
               sources[i].source_id = processed[k].message.source_id

\* a Source holds two messages that came over different connections, one of
\* which has been closed since and its task ended
C4_Witness ==
    \E i \in 1..Len(sources), k1, k2 \in Recorded :
        /\ Len(sources[i].messages) = 2
        /\ k1 < k2
        /\ processed[k1].message.source_id = sources[i].source_id
        /\ processed[k2].message.source_id = sources[i].source_id
        /\ processed[k1].conn # processed[k2].conn
        /\ closed[processed[k1].conn]
        /\ exc[processed[k1].conn] = "StreamClosedError"

\* C5: at every point where another task may run, one Source has been built
\* per identifier at most, every registered Source holds the message that
\* created it, and every recorded message is in the history of the one
\* Source of its identifier (none is lost).
C5_RegistryUpdateIsAtomic ==
    /\ \A i, j \in 1..Len(created) : created[i] = created[j] => i = j
    /\ Len(created) = Len(sources)
    /\ \A i \in 1..Len(sources) :
           /\ sources[i].source_id = created[i]
           /\ Len(sources[i].messages) >= 1
    /\ \A k \in Recorded :
           Cardinality({i \in 1..Len(sources) :
               /\ sources[i].source_id = processed[k].message.source_id
               /\ Count(sources[i].messages, processed[k].message) >= 1}) = 1
    /\ Cardinality(Recorded) =
           Cardinality({<<i, n>> \in (1..Len(sources)) \X (1..MaxSent + 1) :
                            n <= Len(sources[i].messages)})

\* two connections had a message for the same unseen identifier in flight at
\* the same time: the first was recorded, and created the Source, while the
\* second connection's frame was partly read; both are in the history
C5_Witness ==
    \E k1, k2 \in Recorded, i \in 1..Len(sources) :
        /\ k1 < k2
        /\ processed[k2].conn \in processed[k1].concurrent
        /\ processed[k1].message.source_id = processed[k2].message.source_id
        /\ \A k \in Recorded :
               k < k1 => processed[k].message.source_id # processed[k1].message.source_id
        /\ sources[i].source_id = processed[k1].message.source_id
        /\ Len(sources[i].messages) = 2

\* the SUCCESS acknowledgement of a frame: header 0x11, the frame's two
\* sequence number bytes, and the check sum of these three bytes
SuccessAckOf(frame) ==
    <<17, frame[2], frame[3], Xor(17, Xor(frame[2], frame[3]))>>
\* what the handler answered the frames of a connection with, in order
AnswersOn(c) ==
    LET entries == SelectSeq(processed, LAMBDA p : p.conn = c /\ p.answer # <<>>)
    IN [i \in 1..Len(entries) |-> entries[i].answer]

RecordedOn(c) == Cardinality({i \in Recorded : processed[i].conn = c})

\* the summary line broadcast for the message connection c recorded last
SummaryOf(c) == utf8_encode(SourceMessage_str(message[c]))

\* C7: when a connection's task is not in the middle of answering and
\* broadcasting a message, every message recorded from it has had its
\* broadcast (unless the connection itself was lost), and the broadcast of
\* the last one has written its newline-terminated summary exactly once to
\* each listener that was registered with an open transport when it began.
C7_RecordedMessagesAreBroadcast ==
    \A c \in SourceConns :
        pc[c] \notin {"written", "broadcast"} =>
            /\ exc[c] # "StreamClosedError" => iter[c].returned = RecordedOn(c)
            /\ \A l \in iter[c].open :
                   /\ Count(out[l], SummaryOf(c)) = 1
                   /\ SummaryOf(c)[Len(SummaryOf(c))] = 10

\* C8: while a broadcast is between two of its listener writes no other
\* connection's broadcast is under way or begins, and every write to a
\* listener is a write of that one broadcast.
C8_BroadcastsNotInterleaved ==
    [][\A c \in SourceConns :
          pc[c] = "broadcast" =>
              /\ \A d \in SourceConns \ {c} :
                     pc[d] # "broadcast" /\ pc'[d] # "broadcast" /\ iter'[d] = iter[d]
              /\ (\E l \in ListenerConns : out'[l] # out[l]) =>
                     /\ Len(iter'[c].delivered) = Len(iter[c].delivered) + 1
                     /\ \A l \in ListenerConns :
                            out'[l] # out[l] =>
                                l = iter'[c].delivered[Len(iter'[c].delivered)]
      ]_vars

\* a broadcast has written to the first of two listeners while another
\* connection's recorded message is waiting for its broadcast
C8_Witness ==
    \E c, d \in SourceConns :
        /\ c # d
        /\ pc[c] = "broadcast"
        /\ Len(iter[c].start) = 2
        /\ Len(iter[c].delivered) = 1
        /\ pc[d] = "written"

RECURSIVE SplitLines(_)
\* the lines of a newline-terminated text
SplitLines(bytes_data) ==
    IF Len(bytes_data) = 0 THEN <<>>
    ELSE LET k == CHOOSE k \in 1..(Len(bytes_data) + 1) :
                      /\ k = Len(bytes_data) + 1 \/ bytes_data[k] = 10
                      /\ \A j \in 1..(k - 1) : bytes_data[j] # 10
         IN <<SubSeq(bytes_data, 1, k - 1)>>
            \o SplitLines(SubSeq(bytes_data, k + 1, Len(bytes_data)))

\* 'No sources yet\n'
NoSourcesYetLine ==
    <<78, 111, 32, 115, 111, 117, 114, 99, 101, 115, 32, 121, 101, 116, 10>>

\* bytes_data is a snapshot of the registry srcs: the literal line exactly
\* when the registry is empty, else one newline-terminated summary per Source
\* in the registry's order
IsSnapshot(bytes_data, srcs) ==
    /\ Len(bytes_data) > 0
    /\ bytes_data[Len(bytes_data)] = 10
    /\ (Len(srcs) = 0) <=> (bytes_data = NoSourcesYetLine)
    /\ Len(srcs) > 0 =>
           LET lines == SplitLines(bytes_data)
           IN /\ Len(lines) = Len(srcs)
              /\ \A i \in 1..Len(srcs) :
                     \E ms \in ElapsedMs :
                         lines[i] = utf8_encode(Source_str(srcs[i], ms))

\* C9: a connection accepted on the broadcast endpoint is in the listener
\* registry when its handler has run and its snapshot was written; the first
\* data written to it is written in that step and is the snapshot of the
\* registry of sources as it is then; nothing is written to it before, and
\* what was written first stays first.
C9_SnapshotFirst ==
    [][\A l \in ListenerConns :
          /\ pc[l] = "new" => out[l] = <<>> /\ l \notin Range(listeners)
          /\ (pc[l] = "new" /\ pc'[l] # "new" /\ out'[l] # <<>>) =>
                 /\ Len(out'[l]) = 1
                 /\ IsSnapshot(out'[l][1], sources)
                 /\ l \in Range(listeners')
          /\ (pc[l] = "new" /\ pc'[l] # "new" /\ out'[l] = <<>>) => closed'[l]
          /\ out[l] # <<>> => (out'[l] # <<>> /\ out'[l][1] = out[l][1])
      ]_vars

\* a listener accepted while a Source existed has been written its snapshot
\* and then the summary of a message broadcast later
C9_Witness ==
    \E l \in ListenerConns :
        /\ Len(out[l]) = 2
        /\ out[l][1] # NoSourcesYetLine
        /\ l \in Range(listeners)
        /\ \E c \in SourceConns : iter[c].state = "returned" /\ l \in Range(iter[c].delivered)

\* the listener's snapshot could not be written
SnapshotFailed(l) == pc[l] = "done" /\ out[l] = <<>>

\* C10: a listener whose snapshot could not be written is not in the
\* registry at any point where a broadcast may run, no broadcast's iteration
\* holds it or writes to it, and the step that accepted it left the
\* registry as it was.
C10_FailedListenerNeverBroadcastTo ==
    /\ [](\A l \in ListenerConns :
             SnapshotFailed(l) =>
                 /\ l \notin Range(listeners)
                 /\ \A c \in SourceConns :
                        /\ l \notin Range(iter[c].start)
                        /\ l \notin Range(iter[c].delivered)
                        /\ l \notin Range(iter[c].failed))
    /\ [][\A l \in ListenerConns :
             (pc[l] = "new" /\ pc'[l] = "done" /\ out'[l] = <<>>) =>
                 listeners' = listeners]_vars

\* a listener's snapshot failed, another listener is registered, and a
\* broadcast that began after both has written to that other listener
C10_Witness ==
    \E l, m \in ListenerConns, c \in SourceConns :
        /\ l < m
        /\ SnapshotFailed(l)
        /\ m \in Range(listeners)
        /\ iter[c].state = "returned"
        /\ iter[c].delivered = <<m>>

\* C11: in the step that ends a broadcast, every listener that was registered
\* with a closed transport when the broadcast began is out of the registry
\* and every listener registered with an open transport is still in it.
C11_ClosedRemovedOpenKept ==
    [][\A c \in SourceConns :
          (pc[c] = "broadcast" /\ pc'[c] # "broadcast") =>
              /\ \A l \in Range(iter[c].start) \ iter[c].open :
                     l \notin Range(listeners')
              /\ \A l \in iter[c].open : l \in Range(listeners')
      ]_vars

\* what is written to the stream is one of the two acknowledgements
IsAck(bytes_data) == Len(bytes_data) = 4 /\ bytes_data[1] \in {17, 18}
\* s is a prefix of t
IsPrefix(s, t) == Len(s) <= Len(t) /\ s = SubSeq(t, 1, Len(s))

\* C12: a connection accepted on the broadcast endpoint never enters the read
\* loop: the bytes it sends stay unread, no frame is processed for it, the
\* registry of sources changes only with a frame of an ingestion
\* connection, and nothing written to it is an acknowledgement. A connection
\* accepted on the ingestion endpoint is never in the listener registry nor
\* in a broadcast's iteration, and is written acknowledgements only.
C12_RoutingIsExclusive ==
    [][/\ \A l \in ListenerConns :
              /\ pc'[l] \in {"new", "done"}
              /\ IsPrefix(inbuf[l], inbuf'[l])
              /\ byte_data'[l] = <<>>
              /\ \A i \in 1..Len(processed') : processed'[i].conn # l
              /\ \A i \in 1..Len(out'[l]) : ~IsAck(out'[l][i])
       /\ sources' # sources =>
              /\ Len(processed') = Len(processed) + 1
              /\ processed'[Len(processed')].conn \in SourceConns
       /\ \A c \in SourceConns :
              /\ c \notin Range(listeners')
              /\ \A d \in SourceConns : c \notin Range(iter'[d].start)
              /\ \A i \in 1..Len(out'[c]) : IsAck(out'[c][i])
      ]_vars

\* a registered listener has sent a whole frame, which lies unread, and has
\* been written its snapshot and the summary of the message an ingestion
\* connection was acknowledged for
C12_Witness ==
    \E l \in ListenerConns, c \in SourceConns :
        /\ pc[l] = "done"
        /\ l \in Range(listeners)
        /\ Len(inbuf[l]) >= 14
        /\ Len(out[l]) = 2
        /\ Len(out[c]) = 1
        /\ Len(sources) = 1

\* the allowed classes of the test server whose header set holds the byte
Owners(header) ==
    {k \in Range(dispatch.allowed) : header \in HEADERS(k)}
\* the byte is owned by a class for which the server defines no handler
Unhandled(header) ==
    \E k \in Owners(header) : <<"handler_", k>> \notin dispatch.methods
\* the handler the byte is to be dispatched to
HandlerFor(header) ==
    IF Owners(header) = {} THEN <<"handler_", "default">>
    ELSE <<"handler_", CHOOSE k \in Owners(header) : TRUE>>

RECURSIVE Consumed(_, _, _)
\* the bytes the read loop and its handlers have taken from the stream, in
\* order: each header byte, followed by the body its handler read
Consumed(reads, calls, bodies) ==
    IF Len(reads) = 0 THEN <<>>
    ELSE IF Len(calls) = 0 THEN <<reads[1]>>
    ELSE IF calls[1].handler = <<"handler_", "default">>
         THEN <<reads[1]>> \o Consumed(Tail(reads), Tail(calls), bodies)
    ELSE IF Len(bodies) = 0 THEN <<reads[1]>>
    ELSE <<reads[1]>> \o bodies[1]
         \o Consumed(Tail(reads), Tail(calls), Tail(bodies))

C14_MissingHandlerRaises ==
    /\ dispatch.pc # "none"
    /\ \A i \in 1..Len(dispatch.read) :
           Unhandled(dispatch.read[i]) =>
               /\ i = Len(dispatch.read)
               /\ dispatch.exc = "ServerException"
               /\ dispatch.pc = "stopped"
    /\ dispatch.exc # "None" =>
           /\ dispatch.exc = "ServerException"
           /\ Len(dispatch.read) >= 1
           /\ Unhandled(dispatch.read[Len(dispatch.read)])
           /\ Len(dispatch.calls) = Len(dispatch.read) - 1
           /\ \A i \in 1..Len(dispatch.calls) :
                  dispatch.calls[i].header = dispatch.read[i]
           /\ Len(dispatch.bodies) =
                  Cardinality({i \in 1..Len(dispatch.calls) :
                      dispatch.calls[i].handler # <<"handler_", "default">>})

\* the server that has no handler for its second class has handled a message
\* of its first class, body included, and raised at a byte of the second
C14_Witness ==
    /\ dispatch.exc = "ServerException"
    /\ dispatch.read = <<255, 3>>
    /\ dispatch.calls = <<[handler |-> <<"handler_", "MockMessage1">>,
                           header |-> 255]>>
    /\ dispatch.bodies = <<<<1, 2>>>>

\* C15: on a server that allows a class for which it defines no handler, no
\* header byte of a connection is ever dispatched: the configuration error
\* has been raised before.
C15_MissingHandlerFoundAtStartup ==
    (\E k \in Range(dispatch.allowed) : <<"handler_", k>> \notin dispatch.methods)
        => Len(dispatch.read) = 0

\* C16: an ingestion connection whose peer has closed and whose task has
\* ended has had the stream-closed callback: the task ended with the
\* StreamClosedError that handle_stream answers with stream_closed_handler,
\* and once it has, the task stays ended and nothing more is processed,
\* written or broadcast for the connection.
C16_ClosedConnectionGetsTheCallback ==
    [][\A c \in SourceConns :
          /\ (closed'[c] /\ pc'[c] = "stopped") => exc'[c] = "StreamClosedError"
          /\ exc[c] = "StreamClosedError" =>
                 /\ pc'[c] = "stopped" /\ exc'[c] = exc[c]
                 /\ out'[c] = out[c] /\ iter'[c] = iter[c]
                 /\ RecordedOn(c)' = RecordedOn(c)
      ]_vars


\* C17: whatever the chunks in which the transport delivers a frame, the
\* bytes decode_stream has taken, those delivered and unread and those still
\* to arrive are, in this order, the bytes of the stream (none read twice,
\* none lost), and when decode_stream has finished it has taken exactly the
\* frame and returns the message, or raises the exception, that decode gives
\* for the whole frame
C17_StreamDecodeIsDecode ==
    codec.stage # "none" =>
        /\ codec.byte_data \o codec.stream \o codec.rest
               = codec.frame \o codec.following
        /\ codec.stage = "done" =>
              /\ codec.byte_data = codec.frame
              /\ codec.result = DecodeOf(codec.class, codec.frame)

\* the two-field frame has been decoded to a message after the coroutine was
\* suspended and resumed in at least three reads, the byte after the frame
\* being left on the stream
C17_Witness ==
    /\ codec.stage = "done"
    /\ codec.class = "SourceMessage"
    /\ codec.frame = bytes_data2
    /\ codec.result.error = "None"
    /\ codec.resumed >= 3
    /\ codec.stream \o codec.rest = <<1>>


\* the bytes are one whole frame of SourceMessage: thirteen bytes up to the
\* count of fields, the chunks of that many fields and the check sum byte
IsWholeFrame(bytes_data) ==
    /\ Len(bytes_data) >= 14
    /\ Len(bytes_data) = 14 + bytes_data[13] * chunk_size

\* the task of connection c takes a step that leaves it with a part of a
\* frame: suspended in a read of decode_stream, or ended by the close of
\* the stream
PartialFrameStep(c) ==
    /\ <<pc[c], byte_data[c]>> # <<pc'[c], byte_data'[c]>>
    /\ ~IsWholeFrame(byte_data'[c])

\* C18: decode_stream hands over whole frames only, each decoded to a
\* message or failed, and a step that leaves a connection with a part of a
\* frame (more bytes to come, or the stream closed) creates or changes no
\* Source, writes no acknowledgement and broadcasts nothing
C18_PartialFrameHasNoEffect ==
    /\ [](/\ \A i \in 1..Len(processed) : IsWholeFrame(processed[i].frame)
          /\ \A c \in SourceConns : pc[c] \in MidFrame => ~IsWholeFrame(byte_data[c]))
    /\ [][\A c \in SourceConns :
             PartialFrameStep(c) =>
                 UNCHANGED <<sources, created, processed, message, out,
                             listeners, iter>>]_vars

\* a connection was closed after the first bytes of a frame had been read:
\* its task has ended with the header and the number in byte_data and
\* nothing written to it, while a frame of the other connection was handled
C18_Witness ==
    \E c \in SourceConns :
        /\ pc[c] = "stopped"
        /\ exc[c] = "StreamClosedError"
        /\ Len(byte_data[c]) = 3
        /\ out[c] = <<>>
        /\ \E i \in 1..Len(processed) : processed[i].conn # c


\* connection d is accepted and its peer is silent or has stopped in the
\* middle of a frame: its task is suspended in a read
Stalled(d) == pc[d] \in ReadStages /\ ~CanRead(d) /\ ~closed[d]
\* s is a suffix of t
IsSuffix(s, t) ==
    Len(s) <= Len(t) /\ s = SubSeq(t, Len(t) - Len(s) + 1, Len(t))
\* the whole of the valid frame has arrived on connection c and is unread
Arrived(c, frame) == wire[c] = <<>> /\ IsSuffix(frame, inbuf[c])
\* the frame of connection c was recorded and its acknowledgement written
Acknowledged(c, frame) ==
    \E i \in 1..Len(processed) :
        /\ processed[i].conn = c
        /\ processed[i].frame = frame
        /\ processed[i].error = "None"
        /\ IsAck(processed[i].answer)

\* C19: while another connection is stalled, silent or in the middle of a
\* frame, every valid frame that has arrived whole on an ingestion connection
\* is eventually recorded and acknowledged (unless its peer closes the
\* connection), and every accepted listener eventually has its snapshot
\* (unless it has closed)
C19_StallBlocksOnlyItsOwnTask ==
    /\ \A c \in SourceConns, frame \in GoodFrames :
          (/\ Arrived(c, frame)
           /\ ~closed[c]
           /\ \E d \in SourceConns \ {c} : Stalled(d))
              ~> (Acknowledged(c, frame) \/ closed[c])
    /\ \A l \in IngestListenerConns :
          (pc[l] = "new" /\ \E d \in SourceConns : Stalled(d))
              ~> (Len(out[l]) > 0 \/ closed[l])

\* the same of a frame that is the next thing the read loop of its
\* connection will read
C19_NextFrameIsHandled ==
    \A c \in SourceConns, frame \in GoodFrames :
        (/\ inbuf[c] = frame /\ wire[c] = <<>>
         /\ ~closed[c]
         /\ pc[c] = "header"
         /\ \E d \in SourceConns \ {c} : Stalled(d))
            ~> (Acknowledged(c, frame) \/ closed[c])


\* the trailing byte of the payload is the XOR of all the bytes before it
TrailingByteAgrees(payload) ==
    payload[Len(payload)] = xor_checksum(SubSeq(payload, 1, Len(payload) - 1))

\* C20: SourceMessage.decode returns a message only for a payload whose
\* trailing byte is the XOR of the bytes received before it, and it rejects
\* every payload whose trailing byte disagrees with InvalidMessageException
C20_DecodeChecksTheBytesReceived ==
    (codec.stage = "done" /\ codec.class = "SourceMessage") =>
        /\ codec.result.error = "None" => TrailingByteAgrees(codec.frame)
        /\ ~TrailingByteAgrees(codec.frame) =>
               codec.result.error = "InvalidMessageException"


\* C21: a frame produced by encode and damaged in one bit of a byte before
\* its check sum byte is refused by decode with InvalidMessageException
C21_OneBitFlipIsInvalidMessage ==
    (codec.stage = "decoded" /\ codec.flipped # <<>>) =>
        codec.decoded.error = "InvalidMessageException"


\* the header and the number of an acknowledgement frame are ones
\* ServerMessage can be constructed with
Admissible(frame) ==
    ServerMessage(from_bytes(SubSeq(frame, 2, 3)), frame[1]).error = "None"

\* C22: ServerMessage.decode_stream of a frame whose header and number are
\* admissible and whose check sum byte does not match raises
\* InvalidMessageException
C22_AckCheckSumMismatchIsInvalidMessage ==
    (/\ codec.stage = "done"
     /\ codec.class = "ServerMessage"
     /\ Admissible(codec.frame)
     /\ ~TrailingByteAgrees(codec.frame)) =>
        codec.result.error = "InvalidMessageException"


\* the text has no NUL character
NulFree(text) == \A i \in 1..Len(text) : text[i] # 0
\* the entries of a message's data, None holding none
EntriesOf(data) == {data.items[i] : i \in 1..Len(data.items)}
\* a message was constructed, encoded and the frame decoded as it was
RoundTrip == codec.stage = "decoded" /\ codec.flipped = <<>>
\* the identifier and the field names of the message are texts of at most 8
\* bytes, and its status, if it was assigned, is a defined one
InDomain(msg) ==
    /\ Len(utf8_encode(msg.source_id)) <= 8
    /\ \A e \in EntriesOf(msg.data) : Len(utf8_encode(e[1])) <= 8
    /\ msg.status \in STATUS
\* the decoded message has the header, number, identifier, status and field
\* map of the message
SameMessage(msg, decoded) ==
    /\ decoded.error = "None"
    /\ decoded.value.header = msg.header
    /\ decoded.value.num = msg.num
    /\ codec.class = "SourceMessage" =>
          /\ decoded.value.source_id = msg.source_id
          /\ decoded.value.status = msg.status
          /\ EntriesOf(decoded.value.data) = EntriesOf(msg.data)

\* C23: decode(encode(m)) has the header, number, identifier, status and
\* field map of m for every message that encodes and whose identifier and
\* field names are texts of at most 8 bytes, and for every ServerMessage
C23_RoundTrip ==
    (RoundTrip /\ (codec.class = "SourceMessage" => InDomain(codec.message.value))) =>
        SameMessage(codec.message.value, codec.decoded)

\* the round trip of the messages whose texts have no NUL character
RoundTripOfNulFreeText ==
    (/\ RoundTrip
     /\ codec.class = "SourceMessage" =>
           /\ InDomain(codec.message.value)
           /\ NulFree(codec.message.value.source_id)
           /\ \A e \in EntriesOf(codec.message.value.data) : NulFree(e[1])) =>
        SameMessage(codec.message.value, codec.decoded)


\* C24: every SourceMessage and every Source carries a status of STATUS,
\* whichever way the status was given: to the constructor of the message or
\* of the Source, by get_message, or by assigning the status attribute
C24_EveryStatusIsDefined ==
    /\ (codec.class = "SourceMessage" /\ codec.message.error = "None") =>
          codec.message.value.status \in STATUS
    /\ codec.source.error = "None" => codec.source.value.status \in STATUS


\* the header and the number the bytes of a ServerMessage frame hold
FrameHeader(frame) == frame[1]
FrameNum(frame) == from_bytes(SubSeq(frame, 2, 3))

\* C25: a ServerMessage of header ERROR has number 0: constructing one with
\* another number, or decoding a frame that holds one, raises
\* InvalidMessageException; constructing one of header SUCCESS with a number
\* of 0..65535 succeeds; every ServerMessage constructed or decoded with
\* header ERROR has number 0
C25_ErrorAckHasNumberZero ==
    codec.class = "ServerMessage" =>
        /\ (codec.stage # "args" /\ codec.args.header = HEADER_ERROR
                /\ codec.args.num # 0) =>
              codec.message.error = "InvalidMessageException"
        /\ (codec.stage # "args" /\ codec.args.header = HEADER_SUCCESS
                /\ codec.args.num \in 0..65535) =>
              /\ codec.message.error = "None"
              /\ codec.message.value.num = codec.args.num
        /\ (codec.stage = "decoded" /\ FrameHeader(codec.payload) = HEADER_ERROR
                /\ FrameNum(codec.payload) # 0) =>
              codec.decoded.error = "InvalidMessageException"
        /\ (codec.message.error = "None"
                /\ codec.message.value.header = HEADER_ERROR) =>
              codec.message.value.num = 0
        /\ (codec.decoded.error = "None"
                /\ codec.decoded.value.header = HEADER_ERROR) =>
              codec.decoded.value.num = 0

\* the frame 12 00 00 12 came with a bit of its number flipped and was decoded
C25_Witness ==
    /\ codec.class = "ServerMessage"
    /\ codec.stage = "decoded"
    /\ codec.flipped # <<>>
    /\ FrameHeader(codec.payload) = HEADER_ERROR
    /\ FrameNum(codec.payload) # 0
    /\ codec.decoded.error = "InvalidMessageException"

\* every acknowledgement of header ERROR the server has written is 12 00 00 12
ErrorAcksWrittenHaveNumberZero ==
    \A c \in Conns : \A i \in 1..Len(out[c]) :
        (IsAck(out[c][i]) /\ FrameHeader(out[c][i]) = HEADER_ERROR) =>
            out[c][i] = <<18, 0, 0, 18>>
\* the server has written an acknowledgement of header ERROR
ErrorAckWritten ==
    \E c \in Conns : \E i \in 1..Len(out[c]) :
        IsAck(out[c][i]) /\ FrameHeader(out[c][i]) = HEADER_ERROR


\* a value of the message does not fit its width on the wire
DoesNotFit(class, msg) ==
    \/ msg.num > 65535
    \/ /\ class = "SourceMessage"
       /\ \/ msg.status > 255
          \/ \E e \in EntriesOf(msg.data) : to_bytes_overflows(e[2], 4)
          \/ Len(msg.data.items) > 255

\* C26: encode() of a message one of whose values does not fit its width (a
\* number above 65535, a status above 255, a field value that does not fit
\* 4 bytes, more than 255 fields) raises EncodeMessageError and yields no
\* bytes
C26_OverflowIsEncodeMessageError ==
    (codec.raw.error # "pending" /\ DoesNotFit(codec.class, codec.message.value)) =>
        /\ codec.raw.error = "EncodeMessageError"
        /\ codec.payload = <<>>


\* the same for the messages of at most 255 fields
OverflowOfNumbersIsEncodeMessageError ==
    (/\ codec.raw.error # "pending"
     /\ DoesNotFit(codec.class, codec.message.value)
     /\ codec.class = "SourceMessage" => Len(codec.message.value.data.items) <= 255) =>
        /\ codec.raw.error = "EncodeMessageError"
        /\ codec.payload = <<>>


\* the bytes are the text in a slot of 8 bytes, zero bytes in front
IsSlotOf(bytes_data, text) ==
    /\ Len(bytes_data) = 8
    /\ Len(utf8_encode(text)) <= 8
    /\ bytes_data = [i \in 1..8 |->
           IF i <= 8 - Len(utf8_encode(text)) THEN 0
           ELSE utf8_encode(text)[i - (8 - Len(utf8_encode(text)))]]
\* the number the bytes hold, the highest byte first
BigEndian2(b) == 256 * b[1] + b[2]
BigEndian4(b) == 16777216 * b[1] + 65536 * b[2] + 256 * b[3] + b[4]
\* the frame without its last byte
Body(frame) == SubSeq(frame, 1, Len(frame) - 1)
\* the k-th chunk of 12 bytes of the frame of a SourceMessage
Chunk(frame, k) == SubSeq(frame, 14 + 12 * (k - 1), 13 + 12 * k)

\* the frame has the layout of a SourceMessage: header, number, identifier,
\* status, field count, a chunk of name and value for each field, check sum
SourceLayout(frame, msg) ==
    LET N == Len(msg.data.items)
    IN /\ Len(frame) = 14 + 12 * N
       /\ frame[1] = msg.header
       /\ BigEndian2(SubSeq(frame, 2, 3)) = msg.num
       /\ Len(utf8_encode(msg.source_id)) <= 8 =>
             IsSlotOf(SubSeq(frame, 4, 11), msg.source_id)
       /\ frame[12] = msg.status
       /\ frame[13] = N
       /\ \A e \in EntriesOf(msg.data) :
             Len(utf8_encode(e[1])) <= 8 =>
                \E k \in 1..N :
                   /\ IsSlotOf(SubSeq(Chunk(frame, k), 1, 8), e[1])
                   /\ BigEndian4(SubSeq(Chunk(frame, k), 9, 12)) = e[2]
       /\ frame[Len(frame)] = xor_checksum(Body(frame))
\* the frame has the layout of a ServerMessage: header, number, check sum
ServerLayout(frame, msg) ==
    /\ Len(frame) = 4
    /\ frame[1] = msg.header
    /\ BigEndian2(SubSeq(frame, 2, 3)) = msg.num
    /\ frame[4] = xor_checksum(Body(frame))

\* C27: every frame encode() returns has the layout of its class, 14 + 12 N
\* bytes for a SourceMessage of N fields and 4 bytes for a ServerMessage,
\* the numbers big-endian and the last byte the XOR of the bytes before it;
\* SourceMessage(1, 'abc', STATUS_IDLE) encodes to
\* 01 00 01 00 00 00 00 00 61 62 63 01 00 61
C27_FrameLayout ==
    codec.raw.error = "None" =>
        /\ codec.class = "SourceMessage" =>
              SourceLayout(codec.raw.value, codec.message.value)
        /\ codec.class = "ServerMessage" =>
              ServerLayout(codec.raw.value, codec.message.value)
        /\ (codec.class = "SourceMessage" /\ codec.args = TestArgs
                /\ codec.assigned = <<>>) =>
              codec.raw.value = bytes_data0

\* SourceMessage(1, 'abc', STATUS_IDLE, data={'abc': 0x010203, 'def': 0x030201})
\* is encoded to the 38 bytes of bytes_data2, check sum 0x64
C27_Witness ==
    /\ codec.class = "SourceMessage"
    /\ codec.raw.error = "None"
    /\ Len(codec.message.value.data.items) = 2
    /\ codec.message.value.data.items[1] = <<abc, 66051>>
    /\ codec.raw.value = bytes_data2


\* the names of the fields of the data
NamesOf(data) == {e[1] : e \in EntriesOf(data)}

\* C28: the identifier and every field name are encoded into 8 bytes each, a
\* text of fewer bytes with zero bytes in front of it, and decoding the frame
\* of a message whose texts have at most 8 bytes recovers exactly these texts
C28_TextSlots ==
    codec.class = "SourceMessage" =>
        /\ codec.raw.error = "None" =>
              /\ Len(codec.raw.value) = 14 + 12 * Len(codec.message.value.data.items)
              /\ Len(utf8_encode(codec.message.value.source_id)) <= 8 =>
                    IsSlotOf(SubSeq(codec.raw.value, 4, 11),
                             codec.message.value.source_id)
              /\ \A name \in NamesOf(codec.message.value.data) :
                    Len(utf8_encode(name)) <= 8 =>
                       \E k \in 1..Len(codec.message.value.data.items) :
                          IsSlotOf(SubSeq(Chunk(codec.raw.value, k), 1, 8), name)
        /\ (RoundTrip /\ InDomain(codec.message.value)) =>
              /\ codec.decoded.error = "None"
              /\ codec.decoded.value.source_id = codec.message.value.source_id
              /\ NamesOf(codec.decoded.value.data) = NamesOf(codec.message.value.data)

\* what the encoder does with a text of more than 8 bytes: the slot holds
\* its first 8 bytes
LongTextKeepsItsFirstBytes ==
    (/\ codec.class = "SourceMessage"
     /\ codec.raw.error = "None"
     /\ Len(utf8_encode(codec.message.value.source_id)) > 8) =>
        SubSeq(codec.raw.value, 4, 11) =
            SubSeq(utf8_encode(codec.message.value.source_id), 1, 8)
\* a message with an identifier of 9 bytes is encoded
LongTextEncoded ==
    /\ codec.class = "SourceMessage"
    /\ codec.raw.error = "None"
    /\ Len(utf8_encode(codec.message.value.source_id)) > 8


\* the data holds the two fields of the tests, in one insertion order or the
\* other
TwoFields == {<<abc, 66051>>, <<def, 197121>>}

\* C29: a message whose data holds the fields 'abc' and 'def', in whichever
\* order they were inserted, encodes to the bytes of bytes_data2: the chunk
\* of 'abc' before the chunk of 'def'. For every message the names in the
\* chunks of its frame ascend
\* in the order of Python's str.
C29_InsertionOrderIsIrrelevant ==
    (codec.class = "SourceMessage" /\ codec.raw.error = "None") =>
        /\ (/\ EntriesOf(codec.args.data) = TwoFields
            /\ [codec.args EXCEPT !.data = NoneData] = TestArgs
            /\ codec.assigned = <<>>) =>
              codec.raw.value = bytes_data2
        /\ \A e1, e2 \in EntriesOf(codec.message.value.data) :
              text_less(e1[1], e2[1]) =>
                 \E k1, k2 \in 1..Len(codec.message.value.data.items) :
                    /\ k1 < k2
                    /\ IsSlotOf(SubSeq(Chunk(codec.raw.value, k1), 1, 8), e1[1])
                    /\ IsSlotOf(SubSeq(Chunk(codec.raw.value, k2), 1, 8), e2[1])

\* the fields were inserted as 'def', 'abc' and the message is encoded
C29_Witness ==
    /\ codec.class = "SourceMessage"
    /\ codec.raw.error = "None"
    /\ Len(codec.args.data.items) = 2
    /\ codec.args.data.items[1] = <<def, 197121>>
    /\ codec.args.data.items[2] = <<abc, 66051>>
    /\ codec.raw.value = bytes_data2


\* the message is in the history of the Source of its identifier
InHistory(msg) ==
    \E i \in 1..Len(sources) :
        /\ sources[i].source_id = msg.source_id
        /\ \E j \in 1..Len(sources[i].messages) : sources[i].messages[j] = msg
\* the last write on connection c is the SUCCESS acknowledgement of the number
AckIssued(c, num) ==
    /\ out[c] # <<>>
    /\ SubSeq(out[c][Len(out[c])], 1, 3) = <<HEADER_SUCCESS, num \div 256, num % 256>>

\* C30: the step of a handler that writes the SUCCESS acknowledgement leaves
\* the message in the history of its Source and writes to no listener, the
\* broadcast not having begun; every write of a broadcast to a listener
\* finds the message in the history of its Source and its acknowledgement
\* written on the source's connection, and writes the summary of that message
C30_RegistryThenAckThenBroadcast ==
    [][\A c \in SourceConns :
          /\ (out'[c] # out[c] /\ out'[c][Len(out'[c])][1] = HEADER_SUCCESS) =>
                /\ InHistory(message[c])'
                /\ AckIssued(c, message[c].num)'
                /\ pc[c] # "broadcast" /\ pc'[c] = "written"
                /\ \A l \in ListenerConns : out'[l] = out[l]
          /\ (pc[c] = "broadcast" /\ \E l \in ListenerConns : out'[l] # out[l]) =>
                /\ InHistory(message[c])
                /\ AckIssued(c, message[c].num)
                /\ \A l \in ListenerConns :
                      out'[l] # out[l] => out'[l] = Append(out[l], SummaryOf(c))
      ]_vars

\* the second message of a connection has been recorded and acknowledged and
\* its summary written to a listener
C30_Witness ==
    \E c \in SourceConns, l \in ListenerConns :
        /\ pc[c] = "broadcast"
        /\ Len(out[c]) = 2
        /\ InHistory(message[c])
        /\ AckIssued(c, message[c].num)
        /\ Len(iter[c].delivered) = 1
        /\ out[l] # <<>>
        /\ out[l][Len(out[l])] = SummaryOf(c)


\* the last recorded message that bears the identifier
LastRecorded(source_id) == Bearing(source_id)[Len(Bearing(source_id))]

\* C31: at every point where another task may run, every Source of the
\* registry has a history that is not empty, its status is the status of the
\* last message of the history, and that message is the one recorded last
\* for its identifier; so str(source) finds a last message for every Source
\* the snapshot renders
C31_SourceHasItsLastMessage ==
    \A i \in 1..Len(sources) :
        /\ Len(sources[i].messages) > 0
        /\ sources[i].status = sources[i].messages[Len(sources[i].messages)].status
        /\ sources[i].messages[Len(sources[i].messages)] =
               LastRecorded(sources[i].source_id)

\* a Source has received two messages of different statuses and a listener
\* was then sent the snapshot that renders it
C31_Witness ==
    \E i \in 1..Len(sources), l \in ListenerConns :
        /\ Len(sources[i].messages) = 2
        /\ sources[i].messages[1].status # sources[i].messages[2].status
        /\ sources[i].status = sources[i].messages[2].status
        /\ out[l] # <<>>
        /\ IsSnapshot(out[l][1], sources)


\* C32: every whole frame of header 0x01 read on a connection that is open
\* when the frame is answered is answered with one acknowledgement, and what
\* has been written on a connection are the answers to its frames in the
\* order the frames were read
C32_OneAckPerFrameInOrder ==
    /\ \A i \in 1..Len(processed) :
           processed[i].raised # "StreamClosedError" => IsAck(processed[i].answer)
    /\ \A c \in SourceConns : out[c] = AnswersOn(c)

\* while a handler stands between its acknowledgement and the end of its
\* broadcast no byte of its connection is read
NextHeaderWaitsForTheBroadcast ==
    [][\A c \in SourceConns :
          pc[c] \in {"written", "broadcast"} =>
              /\ IsPrefix(inbuf[c], inbuf'[c])
              /\ byte_data'[c] = byte_data[c]
              /\ Len(AnswersOn(c)') = Len(AnswersOn(c))
      ]_vars


\* the places of the writes to listener l that are the summary of the message
PlacesOf(l, msg) ==
    {p \in 1..Len(out[l]) : out[l][p] = utf8_encode(SourceMessage_str(msg))}

\* C33: of two messages recorded from one connection, the one its peer sent
\* first (the one of the lower number) has its summary written to a listener
\* before the summary of the other, whatever listener that is and whatever
\* happened on the other connections
C33_BroadcastsInSendingOrder ==
    \A l \in ListenerConns : \A i, j \in Recorded :
        (/\ processed[i].conn = processed[j].conn
         /\ processed[i].message.num < processed[j].message.num) =>
            \A p \in PlacesOf(l, processed[i].message),
               q \in PlacesOf(l, processed[j].message) : p < q

\* a listener has been written its snapshot and the summaries of the two
\* messages of one connection, while the other source connection was
\* accepted and closed
C33_Witness ==
    \E l \in ListenerConns, c, d \in SourceConns : \E i, j \in Recorded :
        /\ c # d /\ closed[d] /\ pc[d] # "new"
        /\ processed[i].conn = c /\ processed[j].conn = c
        /\ processed[i].message.num < processed[j].message.num
        /\ Len(out[l]) = 3
        /\ PlacesOf(l, processed[i].message) = {2}
        /\ PlacesOf(l, processed[j].message) = {3}


\* the bytes of connection c that have arrived and belong to no frame handed
\* to decode yet: those decode_stream has read of the frame it is reading,
\* and the unread ones
Pending(c) == (IF pc[c] \in MidFrame THEN byte_data[c] ELSE <<>>) \o inbuf[c]

\* C34: the step that hands a frame of connection c to decode has consumed,
\* with the header byte, exactly 14 + 12 N bytes, N being the field count
\* byte of the frame, whether decode accepts the frame or not; what is left
\* unread begins with the byte that followed the frame's check sum byte, and
\* when the task reads on it stands at the header read before that byte
C34_FrameConsumedExactly ==
    [][\A c \in SourceConns :
          (/\ Len(processed') = Len(processed) + 1
           /\ processed'[Len(processed')].conn = c) =>
              LET frame == processed'[Len(processed')].frame
              IN /\ Len(frame) = 14 + 12 * frame[13]
                 /\ Pending(c) = frame \o inbuf'[c]
                 /\ pc'[c] \in {"header", "written", "stopped"}
                 /\ pc'[c] = "stopped" <=> exc'[c] # "None"
      ]_vars

\* a frame was rejected and the frame that followed it on the connection was
\* read from its first byte on and accepted
C34_Witness ==
    \E c \in SourceConns, i, j \in 1..Len(processed) :
        /\ j = i + 1
        /\ processed[i].conn = c /\ processed[j].conn = c
        /\ processed[i].error = "InvalidMessageException"
        /\ processed[j].error = "None"
        /\ processed[i].concurrent = {}
        /\ Len(out[c]) = 2
        /\ ~closed[c]


\* a byte of connection c was consumed in the step
ByteConsumed(c) == Len(inbuf'[c]) < Len(inbuf[c])

\* C35: the step that reads, as a header, a byte other than 0x01 on an
\* ingestion connection consumes that byte and nothing else: nothing is
\* written to any connection, the sources, the listeners, the broadcasts
\* and the record of processed frames stay as they are, and the task is
\* again at the header read, before the byte that followed; no frame is
\* ever handed to decode with another header than 0x01
C35_StrayHeaderIsDropped ==
    /\ [](\A i \in 1..Len(processed) : processed[i].frame[1] = 1)
    /\ [][\A c \in SourceConns :
             (/\ pc[c] = "header"
              /\ inbuf[c] # <<>>
              /\ inbuf[c][1] # 1
              /\ ByteConsumed(c)) =>
                 /\ inbuf'[c] = Tail(inbuf[c])
                 /\ pc'[c] = "header"
                 /\ UNCHANGED <<sources, listeners, out, processed, created, exc,
                                iter, message, byte_data>>
        ]_vars

\* the byte 0x11 or 0x12 sent in front of a frame has been dropped and the
\* frame's header and number have been read: of the five bytes that arrived
\* first, one is left unread
C35_Witness ==
    \E c \in SourceConns :
        /\ pc[c] = "source_id"
        /\ Len(byte_data[c]) = 3
        /\ byte_data[c][1] = 1
        /\ Len(inbuf[c]) = 1
        /\ wire[c] # <<>>
        /\ out[c] = <<>>


\* the snapshot has a line for the Source of the message that shows the
\* message's number or a later one: it was taken when the message was in the
\* registry
SnapshotShows(snapshot, msg) ==
    \E k \in 1..Len(SplitLines(snapshot)) : \E n \in msg.num..(MaxSent + 1) :
        IsPrefix(<<91>> \o msg.source_id \o <<93, 32>> \o str_int(n) \o <<32>>,
                 SplitLines(snapshot)[k])
\* number of broadcasts of connection c that are over: those that returned
\* and the one an exception ended
BroadcastsOver(c) ==
    iter[c].returned + (IF iter[c].state = "RuntimeError" THEN 1 ELSE 0)
\* the broadcast of the i-th processed frame's message has run and is over:
\* the broadcasts of a connection run in the order of its acknowledged
\* messages
BroadcastRan(i) ==
    /\ i \in Recorded
    /\ processed[i].raised = "None"
    /\ Cardinality({j \in Recorded : /\ j <= i
                                     /\ processed[j].conn = processed[i].conn
                                     /\ processed[j].raised = "None"})
           <= BroadcastsOver(processed[i].conn)
\* the listener was registered and has not been removed
StaysRegistered(l) == l \in Range(listeners) /\ pc[l] = "done" /\ out[l] # <<>>

\* C36: a listener that is registered has, for every message whose broadcast
\* has run, either been sent a snapshot taken when the message was in the
\* registry or been sent the summary of the message
C36_NoUpdateMissed ==
    \A i \in 1..Len(processed) : \A l \in ListenerConns :
        (BroadcastRan(i) /\ StaysRegistered(l)) =>
            \/ SnapshotShows(out[l][1], processed[i].message)
            \/ PlacesOf(l, processed[i].message) # {}

\* the same for the broadcasts that no exception ended
NoUpdateMissedByCompleteBroadcasts ==
    \A i \in 1..Len(processed) : \A l \in ListenerConns :
        (/\ BroadcastRan(i) /\ StaysRegistered(l)
         /\ \A c \in SourceConns : exc[c] # "RuntimeError") =>
            \/ SnapshotShows(out[l][1], processed[i].message)
            \/ PlacesOf(l, processed[i].message) # {}
\* a listener accepted between the recording of a message and its broadcast
\* was sent both the snapshot that shows the message and its summary
ListenerAcceptedBeforeTheBroadcast ==
    \E i \in 1..Len(processed), l \in ListenerConns :
        /\ BroadcastRan(i) /\ StaysRegistered(l)
        /\ SnapshotShows(out[l][1], processed[i].message)
        /\ PlacesOf(l, processed[i].message) # {}


\* C37: the task of a connection ends with ServerException only at a header
\* byte whose allowed class has no handler method on the server; an error
\* raised by a handler that exists never ends it with ServerException
C37_ServerExceptionMeansNoHandler ==
    dispatch.exc = "ServerException" =>
        /\ Len(dispatch.read) >= 1
        /\ Unhandled(dispatch.read[Len(dispatch.read)])

\* the errors of handlers other than AttributeError leave catch_message as
\* they are
OtherHandlerErrorsPass ==
    (dispatch.exc = "ServerException" /\ dispatch.raises # "AttributeError") =>
        /\ Len(dispatch.read) >= 1
        /\ Unhandled(dispatch.read[Len(dispatch.read)])
\* a handler raised ValueError and the task ended with it
HandlerValueErrorSeen ==
    /\ dispatch.exc = "ValueError"
    /\ Len(dispatch.bodies) = 1


\* a message whose status was assigned an undefined value was pushed, with
\* get_message, to a Source that could be constructed
UndefinedStatusPushed ==
    /\ codec.stage = "source"
    /\ Len(codec.assigned) = 3
    /\ codec.assigned[1] \notin STATUS
    /\ codec.assigned[3] = -1
    /\ Source(codec.message.value.source_id, codec.assigned[2]).error = "None"

\* C38: get_message of a message that carries an undefined status raises
\* SourceException and leaves the Source as it was: its status is the one
\* it was constructed with and its history is still empty
C38_FailedUpdateLeavesTheSource ==
    UndefinedStatusPushed =>
        /\ codec.source.error = "SourceException"
        /\ codec.source.value.source_id = codec.message.value.source_id
        /\ codec.source.value.status =
               (IF codec.assigned[2] = 0 THEN STATUS_IDLE ELSE codec.assigned[2])
        /\ codec.source.value.messages = <<>>

\* a Source of status RECHARGE was pushed a message whose status had been
\* set to 256
C38_Witness ==
    /\ UndefinedStatusPushed
    /\ codec.assigned = <<256, STATUS_RECHARGE, -1>>
    /\ codec.source.error = "SourceException"
    /\ codec.source.value.status = STATUS_RECHARGE

=============================================================================
